---- MODULE Spec2Model ----
(***************************************************************************)
(* State-machine model of the ptmalloc2 simulator (class Arena) of         *)
(* visalloc.  Chunks live in an address -> record map; every bin link is   *)
(* an address, so the model follows the code statement by statement.       *)
(* A JavaScript TypeError (property access on the result of a failed       *)
(* mem.get) ends the running operation with status "throw" and leaves the  *)
(* arena as mutated so far; a list walk that can never return to its head  *)
(* ends with status "hang".                                                *)
(***************************************************************************)
EXTENDS Integers, Sequences, FiniteSets, TLC

VARIABLES
  mem,        \* Arena.mem: chunk address -> chunk record
  nextAddr,   \* Arena.nextAddr: the next address to mint (high-water mark)
  top,        \* Arena.top: address of the top chunk
  fastbins,   \* Arena.fastbins: 10 list heads
  unsorted,   \* Arena.unsorted: list head
  smallbins,  \* Arena.smallbins: 64 ring heads
  largebins,  \* Arena.largebins: 32 ring heads
  tcache,     \* Arena.tcache: chunk size -> stack of addresses
  events,     \* Arena.events: the event log
  ptrs,       \* the caller: user pointers allocate has returned so far
  left,       \* the caller: number of calls it may still make
  live,       \* the caller: how often each pointer was returned since its last release
  lastOp      \* the caller: the last call, its argument, outcome and result

vars == <<mem, nextAddr, top, fastbins, unsorted, smallbins, largebins,
          tcache, events, ptrs, left, live, lastOp>>

-----------------------------------------------------------------------------
(* Program constants                                                       *)

SIZE_SZ == 8
MALLOC_ALIGNMENT == 16
CHUNK_OVERHEAD == 2 * SIZE_SZ
MIN_CHUNK_SIZE == 2 * SIZE_SZ
FASTBIN_MAX == 80
NBINS_SMALL == 64
SMALLBIN_MAX == 512
TCACHE_MAX == 64
TCACHE_BIN_LIMIT == 7
FASTBIN_CONSOLIDATION_THRESHOLD == 8192
NFASTBINS == 10
NLARGEBINS == 32
HEAP_BASE == 4096
SYSMALLOC_MIN == 65536

\* null / undefined link or pointer (0 is never the address of a chunk)
NULL == 0

-----------------------------------------------------------------------------
(* Bounds of the model                                                     *)

\* number of allocate / release / consolidate calls in one behaviour
MaxOps == 6

\* number of calls in the longer behaviours of SpecDeep
DeepOps == 8

\* initialHeapBytes passed to the constructor (the viewer passes 1 << 15)
InitialHeapBytes == 32768

\* request sizes: tcache and fastbin class (chunk 48), fastbin-only class
\* (chunk 96), smallbin class (chunk 416), largebin class (chunk 2016),
\* and the request whose chunk is the whole initial heap (chunk 32768)
Requests == {24, 80, 400, 2000, 32752}

\* request sizes of SpecDeep: one tcache-sized, one beyond tcache and fastbin
DeepRequests == {24, 400}

\* number of calls in the behaviours of SpecFill, which fill a tcache slot
FillOps == 19

\* the request sizes of SpecFill: chunk 48 is cached by the tcache, chunk 96
\* is the fastbin size above the tcache maximum
FillRequests == {24, 80}

\* number of calls in the behaviours of SpecLarge, which put two chunks in
\* one largebin and allocate from it
LargeOps == 8

\* the request sizes of SpecLarge: 2000 is the block that is released
\* (chunk 2016), 24 and 400 cut remainders of 1968 and 1600 bytes off it
LargeRequests == {24, 400, 2000}

\* number of calls in the behaviours of SpecSmall, which put two chunks in
\* one smallbin, unlink one by coalescing and allocate from the bin
SmallOps == 10

\* the request sizes of SpecSmall: 400 is the block that is released
\* (chunk 416), 24 cuts a remainder of 368 bytes off it, and 344 asks for
\* a chunk of 368 bytes
SmallRequests == {24, 344, 400}

\* how many blocks of 400 bytes, and of 344 bytes, the caller of SpecSmall
\* asks for at most
MaxMedium == 3
MaxExact == 2

\* number of calls in the behaviours of SpecRing, which put three chunks in
\* one largebin
RingOps == 10

\* how many blocks of 2000 bytes, and how many of each smaller size, the
\* caller of SpecRing asks for at most
MaxLarge == 3
MaxCuts == 2

\* the chunk sizes on which the index functions are compared with their
\* description are the multiples of 16 up to 16 * MaxClass, and the sizes of
\* the chunks of the state
MaxClass == 40

\* number of calls in the behaviours of SpecFit, which put chunks of two
\* sizes in the unsorted bin and allocate the larger one
FitOps == 8

\* number of calls in the behaviours of SpecSplit, which plays the scenario
\* of a large block released and a smaller one allocated
SplitOps == 6

\* the request sizes of SpecSplit (chunks 528 and 2016)
SplitRequests == {500, 2000}

\* a pointer that never is chunk address + 16
BadPtr == HEAP_BASE + 8

-----------------------------------------------------------------------------
(* Size classifier                                                         *)

\* (n + (a - 1)) & ~(a - 1) for a = 16 and 0 <= n < 2^31 - 16
alignUp(n) == (n + (MALLOC_ALIGNMENT - 1)) - ((n + (MALLOC_ALIGNMENT - 1)) % MALLOC_ALIGNMENT)

Max(x, y) == IF x >= y THEN x ELSE y
Min(x, y) == IF x <= y THEN x ELSE y

request2size(req) == Max(alignUp(req + CHUNK_OVERHEAD), MIN_CHUNK_SIZE)

chunk2mem(addr) == addr + CHUNK_OVERHEAD
mem2chunk(p) == p - CHUNK_OVERHEAD

\* -1 when the size has no fastbin; sizes are multiples of 16
fastbinIndex(sz) ==
  IF sz > request2size(FASTBIN_MAX) THEN -1
  ELSE IF sz < request2size(16) THEN -1
  ELSE IF (sz - request2size(16)) \div MALLOC_ALIGNMENT >= NFASTBINS THEN -1
  ELSE (sz - request2size(16)) \div MALLOC_ALIGNMENT

smallbinIndex(sz) ==
  IF sz > request2size(SMALLBIN_MAX) THEN -1
  ELSE IF sz < request2size(16) THEN -1
  ELSE Min((sz - request2size(16)) \div MALLOC_ALIGNMENT, NBINS_SMALL - 1)

RECURSIVE Log2(_)
Log2(x) == IF x <= 1 THEN 0 ELSE 1 + Log2(x \div 2)

largebinIndex(sz) == Min(Log2(sz), NLARGEBINS - 1)

-----------------------------------------------------------------------------
(* The arena as a value: the fields of class Arena, plus the status of the *)
(* running operation and the sizes of the chunk objects it has deleted     *)
(* from the map (a local variable can still hold such an object).          *)

NoDead == [x \in {} |-> 0]

Has(a, x) == x \in DOMAIN a.mem

Ok(a) == a.status = "ok"

Throw(a) == [a EXCEPT !.status = "throw"]

Hang(a) == [a EXCEPT !.status = "hang"]

\* a variant of log that keeps only the newest event of each type
logLatestOfType(a, ev) ==
  [a EXCEPT !.events = Append(SelectSeq(@, LAMBDA e : e.type # ev.type), ev)]

log(a, ev) == [a EXCEPT !.events = Append(@, ev)]

\* c.f = v for the chunk object stored at address x
SetField(a, x, f, v) == [a EXCEPT !.mem[x][f] = v]

\* this.mem.set(x, c)
MemSet(a, x, c) ==
  [a EXCEPT !.mem = [y \in (DOMAIN a.mem) \cup {x} |-> IF y = x THEN c ELSE a.mem[y]]]

\* this.mem.delete(x); the deleted object keeps its last size
MemDelete(a, x) ==
  IF ~Has(a, x) THEN a
  ELSE [a EXCEPT !.mem = [y \in (DOMAIN a.mem) \ {x} |-> a.mem[y]],
                 !.dead = [y \in (DOMAIN a.dead) \cup {x} |->
                             IF y = x THEN a.mem[x].size ELSE a.dead[y]]]

NewChunk(size, prev_inuse, prev_size) ==
  [size |-> size, prev_size |-> prev_size, inuse |-> FALSE, prev_inuse |-> prev_inuse,
   fd |-> NULL, bk |-> NULL, fd_nextsize |-> NULL, bk_nextsize |-> NULL]

\* address looked up by nextChunk(c) for the chunk at x
nextChunk(a, x) == x + a.mem[x].size

\* address returned by prevChunk(c), NULL for undefined
prevChunk(a, x) ==
  IF ~a.mem[x].prev_inuse /\ a.mem[x].prev_size > 0 /\ Has(a, x - a.mem[x].prev_size)
  THEN x - a.mem[x].prev_size
  ELSE NULL

setPrevInuseOnNext(a, x, v) ==
  IF Has(a, nextChunk(a, x)) THEN SetField(a, nextChunk(a, x), "prev_inuse", v) ELSE a

\* an upper bound on the steps of a walk that reads but does not write: a
\* walk that has taken more steps than there are chunks has revisited one
Fuel(a) == Cardinality(DOMAIN a.mem) + 1

-----------------------------------------------------------------------------
(* Bin containers                                                          *)

\* the log entry is written only when the step before it did not throw
LogOk(a, ev) == IF Ok(a) THEN log(a, ev) ELSE a

\* a function result: the arena and the address of the chunk returned
\* (NULL for null, undefined, or no return)
Res(a, c) == [a |-> a, c |-> IF Ok(a) THEN c ELSE NULL]

binEvent(type, bin, x, size) == [type |-> type, bin |-> bin, addr |-> x, size |-> size]

\* cur.fd === cur.addr && cur.bk === cur.addr
wasSingleton(a, x) == a.mem[x].fd = x /\ a.mem[x].bk = x

\* fd.bk = bk.addr; bk.fd = fd.addr for a chunk that is not alone on its
\* ring; a missing neighbour throws before anything is written
RingUnlink(a, x) ==
  IF wasSingleton(a, x) THEN a
  ELSE IF ~Has(a, a.mem[x].fd) \/ ~Has(a, a.mem[x].bk) THEN Throw(a)
  ELSE SetField(SetField(a, a.mem[x].fd, "bk", a.mem[x].bk),
                a.mem[x].bk, "fd", a.mem[x].fd)

\* the head of a ring after the chunk at x left it
HeadAfter(a, x, head) ==
  IF wasSingleton(a, x) THEN NULL
  ELSE IF head = x THEN a.mem[x].fd
  ELSE head

\* cur.fd = cur.bk = null
ClearLinks(a, x) == SetField(SetField(a, x, "fd", NULL), x, "bk", NULL)

\* c.fd = c.addr; c.bk = c.addr
SelfLinks(a, x) == SetField(SetField(a, x, "fd", x), x, "bk", x)

\* append the chunk at x at the tail of the ring whose head is at h:
\* c.fd = head.addr; c.bk = tail.addr; head.bk = c.addr; tail.fd = c.addr
RingAppend(a, h, x) ==
  IF ~Has(a, h) THEN Throw(a)
  ELSE IF ~Has(a, a.mem[h].bk) THEN Throw(SetField(a, x, "fd", h))
  ELSE SetField(SetField(SetField(SetField(a, x, "fd", h), x, "bk", a.mem[h].bk),
                         h, "bk", x),
                a.mem[h].bk, "fd", x)

\* insertUnsorted with the new chunk made the head of the list
insertUnsortedAtHead(a, x) ==
  LogOk(IF a.unsorted = NULL THEN [SelfLinks(a, x) EXCEPT !.unsorted = x]
        ELSE [RingAppend(a, a.unsorted, x) EXCEPT !.unsorted = x],
        binEvent("bin-insert", <<"unsorted">>, x, a.mem[x].size))

insertUnsorted(a, x) ==
  LogOk(IF a.unsorted = NULL THEN [SelfLinks(a, x) EXCEPT !.unsorted = x]
        ELSE RingAppend(a, a.unsorted, x),
        binEvent("bin-insert", <<"unsorted">>, x, a.mem[x].size))

\* b is the arena a after RingUnlink of the chunk at x
UnsortedUnlinked(a, b, x) ==
  IF ~Ok(b) THEN b
  ELSE log(ClearLinks([b EXCEPT !.unsorted = HeadAfter(a, x, a.unsorted)], x),
           binEvent("bin-unlink", <<"unsorted">>, x, a.mem[x].size))

\* the unlink of popFromUnsorted and of unlinkIfBinned
UnlinkFromUnsorted(a, x) == UnsortedUnlinked(a, RingUnlink(a, x), x)

\* the search of popFromUnsorted: "hit" with the first chunk of size >= nb
\* met from cur, "none", "throw" or "hang"
RECURSIVE UnsortedScan(_, _, _, _, _)
UnsortedScan(a, head, cur, nb, fuel) ==
  IF ~Has(a, cur) THEN [r |-> "throw", c |-> NULL]
  ELSE IF a.mem[cur].size >= nb THEN [r |-> "hit", c |-> cur]
  ELSE IF a.mem[cur].fd = NULL THEN [r |-> "none", c |-> NULL]
  ELSE IF ~Has(a, a.mem[cur].fd) THEN [r |-> "throw", c |-> NULL]
  ELSE IF a.mem[cur].fd = head THEN [r |-> "none", c |-> NULL]
  ELSE IF fuel = 0 THEN [r |-> "hang", c |-> NULL]
  ELSE UnsortedScan(a, head, a.mem[cur].fd, nb, fuel - 1)

\* s is the outcome of the search
UnsortedScanned(a, s) ==
  IF s.r = "throw" THEN Res(Throw(a), NULL)
  ELSE IF s.r = "hang" THEN Res(Hang(a), NULL)
  ELSE IF s.r = "none" THEN Res(a, NULL)
  ELSE Res(UnlinkFromUnsorted(a, s.c), s.c)

\* popFromUnsorted(c => c.size >= nb)
popFromUnsorted(a, nb) ==
  IF a.unsorted = NULL THEN Res(a, NULL)
  ELSE UnsortedScanned(a, UnsortedScan(a, a.unsorted, a.unsorted, nb, Fuel(a)))

\* smallbinInsertAt that makes the new chunk the head of the bin
smallbinInsertAtHead(a, idx, x) ==
  IF idx < 0 THEN Throw(a)
  ELSE LogOk(IF a.smallbins[idx + 1] = NULL
             THEN [SelfLinks(a, x) EXCEPT !.smallbins[idx + 1] = x]
             ELSE [RingAppend(a, a.smallbins[idx + 1], x) EXCEPT !.smallbins[idx + 1] = x],
             binEvent("bin-insert", <<"smallbin", idx>>, x, a.mem[x].size))

smallbinInsertAt(a, idx, x) ==
  IF idx < 0 THEN Throw(a)
  ELSE LogOk(IF a.smallbins[idx + 1] = NULL
             THEN [SelfLinks(a, x) EXCEPT !.smallbins[idx + 1] = x]
             ELSE RingAppend(a, a.smallbins[idx + 1], x),
             binEvent("bin-insert", <<"smallbin", idx>>, x, a.mem[x].size))

insertSmallbin(a, x) == smallbinInsertAt(a, smallbinIndex(a.mem[x].size), x)

\* b is the arena a after RingUnlink of the chunk at x
SmallbinUnlinked(a, b, i, x) ==
  IF ~Ok(b) THEN b
  ELSE log(ClearLinks([b EXCEPT !.smallbins[i + 1] = HeadAfter(a, x, a.smallbins[i + 1])], x),
           binEvent("bin-unlink", <<"smallbin", i>>, x, a.mem[x].size))

\* the unlink of takeFromSmallbin (x the head) and of unlinkIfBinned
UnlinkFromSmallbin(a, i, x) == SmallbinUnlinked(a, RingUnlink(a, x), i, x)

\* takeFromSmallbin(idx, nb): FIFO, the head leaves
takeFromSmallbin(a, idx) ==
  IF a.smallbins[idx + 1] = NULL THEN Res(a, NULL)
  ELSE IF ~Has(a, a.smallbins[idx + 1]) THEN Res(Throw(a), NULL)
  ELSE Res(UnlinkFromSmallbin(a, idx, a.smallbins[idx + 1]), a.smallbins[idx + 1])

fastbinPushAt(a, idx, x) ==
  IF idx < 0 THEN Throw(a)
  ELSE log([SetField(a, x, "fd", a.fastbins[idx + 1]) EXCEPT !.fastbins[idx + 1] = x],
           binEvent("bin-insert", <<"fastbin", idx>>, x, a.mem[x].size))

pushFastbin(a, x) == fastbinPushAt(a, fastbinIndex(a.mem[x].size), x)

\* fastbinPopAt that takes the chunk behind the head when there is one
fastbinPopSecondAt(a, idx) ==
  IF idx < 0 THEN Res(a, NULL)
  ELSE IF a.fastbins[idx + 1] = NULL THEN Res(a, NULL)
  ELSE IF ~Has(a, a.fastbins[idx + 1]) THEN Res(Throw(a), NULL)
  ELSE IF ~Has(a, a.mem[a.fastbins[idx + 1]].fd)
    THEN Res(SetField([a EXCEPT !.fastbins[idx + 1] = a.mem[a.fastbins[idx + 1]].fd],
                      a.fastbins[idx + 1], "fd", NULL),
             a.fastbins[idx + 1])
  ELSE Res(SetField(SetField(a, a.fastbins[idx + 1], "fd",
                             a.mem[a.mem[a.fastbins[idx + 1]].fd].fd),
                    a.mem[a.fastbins[idx + 1]].fd, "fd", NULL),
           a.mem[a.fastbins[idx + 1]].fd)

fastbinPopAt(a, idx) ==
  IF idx < 0 THEN Res(a, NULL)
  ELSE IF a.fastbins[idx + 1] = NULL THEN Res(a, NULL)
  ELSE IF ~Has(a, a.fastbins[idx + 1]) THEN Res(Throw(a), NULL)
  ELSE Res(log(SetField([a EXCEPT !.fastbins[idx + 1] = a.mem[a.fastbins[idx + 1]].fd],
                        a.fastbins[idx + 1], "fd", NULL),
               binEvent("bin-unlink", <<"fastbin", idx>>, a.fastbins[idx + 1],
                        a.mem[a.fastbins[idx + 1]].size)),
           a.fastbins[idx + 1])

popFastbinForSize(a, nb) == fastbinPopAt(a, fastbinIndex(nb))

-----------------------------------------------------------------------------
(* Tcache: size -> stack of chunk addresses                                *)

tcacheStack(a, nb) == IF nb \in DOMAIN a.tcache THEN a.tcache[nb] ELSE <<>>

Last(q) == q[Len(q)]

\* tcacheGet that takes the oldest address of the slot
tcacheGetOldest(a, nb) ==
  IF Len(tcacheStack(a, nb)) = 0 THEN Res(a, NULL)
  ELSE Res(log([a EXCEPT !.tcache[nb] = Tail(@)],
               [type |-> "tcache-get", size |-> nb]),
           IF Has(a, Head(a.tcache[nb])) THEN Head(a.tcache[nb]) ELSE NULL)

\* tcacheGet(nb): the popped address leaves the stack and the event is
\* logged even when no chunk is stored at it (the result is then undefined)
tcacheGet(a, nb) ==
  IF Len(tcacheStack(a, nb)) = 0 THEN Res(a, NULL)
  ELSE Res(log([a EXCEPT !.tcache[nb] = SubSeq(@, 1, Len(@) - 1)],
               [type |-> "tcache-get", size |-> nb]),
           IF Has(a, Last(a.tcache[nb])) THEN Last(a.tcache[nb]) ELSE NULL)

tcacheEligible(nb) == nb <= request2size(TCACHE_MAX)

\* tcachePut that accepts one address more than the limit
tcachePutOneMore(a, x) ==
  IF ~tcacheEligible(a.mem[x].size) THEN [a |-> a, put |-> FALSE]
  ELSE IF Len(tcacheStack(a, a.mem[x].size)) > TCACHE_BIN_LIMIT THEN [a |-> a, put |-> FALSE]
  ELSE [a |-> log([a EXCEPT !.tcache =
                     [s \in (DOMAIN a.tcache) \cup {a.mem[x].size} |->
                        IF s = a.mem[x].size THEN Append(tcacheStack(a, s), x)
                        ELSE a.tcache[s]]],
                  [type |-> "tcache-put", size |-> a.mem[x].size]),
        put |-> TRUE]

\* tcachePut(c): [a, put]
tcachePut(a, x) ==
  IF ~tcacheEligible(a.mem[x].size) THEN [a |-> a, put |-> FALSE]
  ELSE IF Len(tcacheStack(a, a.mem[x].size)) >= TCACHE_BIN_LIMIT THEN [a |-> a, put |-> FALSE]
  ELSE [a |-> log([a EXCEPT !.tcache =
                     [s \in (DOMAIN a.tcache) \cup {a.mem[x].size} |->
                        IF s = a.mem[x].size THEN Append(tcacheStack(a, s), x)
                        ELSE a.tcache[s]]],
                  [type |-> "tcache-put", size |-> a.mem[x].size]),
        put |-> TRUE]

-----------------------------------------------------------------------------
(* Largebins: address ring (fd/bk) and size ring (fd_nextsize/bk_nextsize) *)

\* the scan of insertLargebin: the chunk before which the new chunk goes on
\* the size ring (the head again when every member is smaller)
RECURSIVE SizeScan(_, _, _, _, _)
SizeScan(a, head, cur, size, fuel) ==
  IF ~Has(a, cur) THEN [r |-> "throw", c |-> NULL]
  ELSE IF size <= a.mem[cur].size THEN [r |-> "hit", c |-> cur]
  ELSE IF ~Has(a, a.mem[cur].fd_nextsize) THEN [r |-> "throw", c |-> NULL]
  ELSE IF a.mem[cur].fd_nextsize = head THEN [r |-> "hit", c |-> head]
  ELSE IF fuel = 0 THEN [r |-> "hang", c |-> NULL]
  ELSE SizeScan(a, head, a.mem[cur].fd_nextsize, size, fuel - 1)

\* c.fd_nextsize = cur.addr; c.bk_nextsize = prev.addr;
\* prev.fd_nextsize = c.addr; cur.bk_nextsize = c.addr
SizeRingInsertBefore(a, cur, x) ==
  IF ~Has(a, a.mem[cur].bk_nextsize) THEN Throw(SetField(a, x, "fd_nextsize", cur))
  ELSE SetField(SetField(SetField(SetField(a, x, "fd_nextsize", cur),
                                  x, "bk_nextsize", a.mem[cur].bk_nextsize),
                         a.mem[cur].bk_nextsize, "fd_nextsize", x),
                cur, "bk_nextsize", x)

\* s is the outcome of the scan of the size ring
SizeScanned(a, s, x) ==
  IF s.r = "throw" THEN Throw(a)
  ELSE IF s.r = "hang" THEN Hang(a)
  ELSE SizeRingInsertBefore(a, s.c, x)

\* b is the arena after the chunk at x joined the address ring of head h
LargebinAppended(b, h, x) ==
  IF ~Ok(b) THEN b
  ELSE SizeScanned(b, SizeScan(b, h, h, b.mem[x].size, Fuel(b)), x)

largebinInsertAt(a, idx, x) ==
  LogOk(IF a.largebins[idx + 1] = NULL
        THEN [a EXCEPT !.mem[x] = [@ EXCEPT !.fd = x, !.bk = x,
                                            !.fd_nextsize = x, !.bk_nextsize = x],
                       !.largebins[idx + 1] = x]
        ELSE LargebinAppended(RingAppend(a, a.largebins[idx + 1], x),
                              a.largebins[idx + 1], x),
        binEvent("bin-insert", <<"largebin", idx>>, x, a.mem[x].size))

insertLargebin(a, x) == largebinInsertAt(a, largebinIndex(a.mem[x].size), x)

\* fdn.bk_nextsize = bkn.addr; bkn.fd_nextsize = fdn.addr
SizeRingUnlink(a, x) ==
  IF ~Ok(a) THEN a
  ELSE IF ~Has(a, a.mem[x].fd_nextsize) \/ ~Has(a, a.mem[x].bk_nextsize) THEN Throw(a)
  ELSE SetField(SetField(a, a.mem[x].fd_nextsize, "bk_nextsize", a.mem[x].bk_nextsize),
                a.mem[x].bk_nextsize, "fd_nextsize", a.mem[x].fd_nextsize)

\* cur.fd = cur.bk = cur.fd_nextsize = cur.bk_nextsize = null
ClearAllLinks(a, x) ==
  IF ~Ok(a) THEN a
  ELSE [a EXCEPT !.mem[x] = [@ EXCEPT !.fd = NULL, !.bk = NULL,
                                      !.fd_nextsize = NULL, !.bk_nextsize = NULL]]

\* b is the arena a after RingUnlink of the chunk at x
LargebinHead(a, b, i, x) ==
  IF ~Ok(b) THEN b
  ELSE [b EXCEPT !.largebins[i + 1] = HeadAfter(a, x, a.largebins[i + 1])]

\* the unlink of findLargebinFit: a chunk alone on the address ring is not
\* taken off the size ring
TakeLargebinFit(a, i, x) ==
  LogOk(ClearAllLinks(IF wasSingleton(a, x) THEN [a EXCEPT !.largebins[i + 1] = NULL]
                      ELSE SizeRingUnlink(LargebinHead(a, RingUnlink(a, x), i, x), x),
                      x),
        binEvent("bin-unlink", <<"largebin", i>>, x, a.mem[x].size))

\* the unlink of unlinkIfBinned: the size ring is relinked for a singleton too
UnlinkFromLargebin(a, i, x) ==
  LogOk(ClearAllLinks(SizeRingUnlink(LargebinHead(a, RingUnlink(a, x), i, x), x), x),
        binEvent("bin-unlink", <<"largebin", i>>, x, a.mem[x].size))

\* one bin of findLargebinFit: the first chunk of size >= nb met walking
\* the size ring from the head of the bin
RECURSIVE FitScan(_, _, _, _, _)
FitScan(a, head, cur, nb, fuel) ==
  IF ~Has(a, cur) THEN [r |-> "throw", c |-> NULL]
  ELSE IF a.mem[cur].size >= nb THEN [r |-> "hit", c |-> cur]
  ELSE IF ~Has(a, a.mem[cur].fd_nextsize) THEN [r |-> "throw", c |-> NULL]
  ELSE IF a.mem[cur].fd_nextsize = head THEN [r |-> "none", c |-> NULL]
  ELSE IF fuel = 0 THEN [r |-> "hang", c |-> NULL]
  ELSE FitScan(a, head, a.mem[cur].fd_nextsize, nb, fuel - 1)

\* the lowest bin index of a set of them
FirstBin(S) == CHOOSE i \in S : \A j \in S : i <= j

LargebinFit(a, i, nb) == FitScan(a, a.largebins[i + 1], a.largebins[i + 1], nb, Fuel(a))

\* the bins from start upward at which the for loop of findLargebinFit
\* stops: non-empty, and the walk of the size ring ends otherwise than
\* without a fit
FitBins(a, start, nb) ==
  {i \in start..(NLARGEBINS - 1) :
     a.largebins[i + 1] # NULL /\ LargebinFit(a, i, nb).r # "none"}

\* s is the outcome of the search of bin i, where the loop stops
FitScanned(a, i, nb, s) ==
  IF s.r = "throw" THEN Res(Throw(a), NULL)
  ELSE IF s.r = "hang" THEN Res(Hang(a), NULL)
  ELSE Res(TakeLargebinFit(a, i, s.c), s.c)

findLargebinFitIn(a, nb, S) ==
  IF S = {} THEN Res(a, NULL)
  ELSE FitScanned(a, FirstBin(S), nb, LargebinFit(a, FirstBin(S), nb))

findLargebinFit(a, nb) == findLargebinFitIn(a, nb, FitBins(a, largebinIndex(nb), nb))

-----------------------------------------------------------------------------
(* unlinkIfBinned: look for the chunk in unsorted, smallbins, largebins    *)

\* walk a ring from its head along link f looking for the chunk at x
RECURSIVE RingFind(_, _, _, _, _, _)
RingFind(a, head, cur, x, f, fuel) ==
  IF ~Has(a, cur) THEN "throw"
  ELSE IF cur = x THEN "found"
  ELSE IF ~Has(a, a.mem[cur][f]) THEN "throw"
  ELSE IF a.mem[cur][f] = head THEN "notfound"
  ELSE IF fuel = 0 THEN "hang"
  ELSE RingFind(a, head, a.mem[cur][f], x, f, fuel - 1)

LargebinFind(a, i, x) ==
  RingFind(a, a.largebins[i + 1], a.largebins[i + 1], x, "fd_nextsize", Fuel(a))

\* the largebins at which the search loop stops: non-empty, and the walk
\* finds the chunk or fails
LargebinStops(a, x) ==
  {i \in 0..(NLARGEBINS - 1) :
     a.largebins[i + 1] # NULL /\ LargebinFind(a, i, x) # "notfound"}

LargebinSearched(a, i, x, r) ==
  IF r = "throw" THEN Throw(a)
  ELSE IF r = "hang" THEN Hang(a)
  ELSE UnlinkFromLargebin(a, i, x)

unlinkFromLargebinsIn(a, x, S) ==
  IF S = {} THEN a
  ELSE LargebinSearched(a, FirstBin(S), x, LargebinFind(a, FirstBin(S), x))

unlinkFromLargebins(a, x) == unlinkFromLargebinsIn(a, x, LargebinStops(a, x))

SmallbinFind(a, i, x) ==
  RingFind(a, a.smallbins[i + 1], a.smallbins[i + 1], x, "fd", Fuel(a))

SmallbinStops(a, x) ==
  {i \in 0..(NBINS_SMALL - 1) :
     a.smallbins[i + 1] # NULL /\ SmallbinFind(a, i, x) # "notfound"}

SmallbinSearched(a, i, x, r) ==
  IF r = "throw" THEN Throw(a)
  ELSE IF r = "hang" THEN Hang(a)
  ELSE UnlinkFromSmallbin(a, i, x)

unlinkFromSmallbinsIn(a, x, S) ==
  IF S = {} THEN unlinkFromLargebins(a, x)
  ELSE SmallbinSearched(a, FirstBin(S), x, SmallbinFind(a, FirstBin(S), x))

unlinkFromSmallbins(a, x) == unlinkFromSmallbinsIn(a, x, SmallbinStops(a, x))

UnsortedSearched(a, x, r) ==
  IF r = "throw" THEN Throw(a)
  ELSE IF r = "hang" THEN Hang(a)
  ELSE IF r = "found" THEN UnlinkFromUnsorted(a, x)
  ELSE unlinkFromSmallbins(a, x)

unlinkIfBinned(a, x) ==
  IF a.unsorted = NULL THEN unlinkFromSmallbins(a, x)
  ELSE UnsortedSearched(a, x, RingFind(a, a.unsorted, a.unsorted, x, "fd", Fuel(a)))

-----------------------------------------------------------------------------
(* Coalescing and consolidation                                            *)

\* b is the arena after unlinkIfBinned(n): cur.size += n.size; mem.delete(n.addr)
AbsorbNext(b, x, n) ==
  IF ~Ok(b) THEN b
  ELSE MemDelete(SetField(b, x, "size", b.mem[x].size + b.mem[n].size), n)

\* n.prev_size = c.size; n.prev_inuse = false for the chunk n after the one at x
FixNext(b, x) ==
  IF Has(b, nextChunk(b, x))
  THEN SetField(SetField(b, nextChunk(b, x), "prev_size", b.mem[x].size),
                nextChunk(b, x), "prev_inuse", FALSE)
  ELSE b

\* p.size += cur.size, for p the chunk before the one at x
GrowPrev(b, p, x) == SetField(b, p, "size", b.mem[p].size + b.mem[x].size)

\* b is the arena after unlinkIfBinned(p): p.size += cur.size; the chunk
\* after p is told; mem.delete(cur.addr)
AbsorbIntoPrev(b, p, x) ==
  IF ~Ok(b) THEN b
  ELSE MemDelete(FixNext(GrowPrev(b, p, x), p), x)

\* setPrevInuseOnNext(cur, false); log; return cur
coalesceTail(a, cur, orig) ==
  IF ~Ok(a) THEN Res(a, NULL)
  ELSE Res(log(setPrevInuseOnNext(a, cur, FALSE),
               [type |-> "coalesce", result |-> cur, size |-> a.mem[cur].size,
                parts |-> <<orig>>]),
           cur)

\* the backward half of coalesce: prevChunk trusts prev_inuse and prev_size
coalesceBackward(a, x) ==
  IF ~Ok(a) THEN Res(a, NULL)
  ELSE IF prevChunk(a, x) # NULL /\ ~a.mem[prevChunk(a, x)].inuse
  THEN coalesceTail(AbsorbIntoPrev(unlinkIfBinned(a, prevChunk(a, x)), prevChunk(a, x), x),
                    prevChunk(a, x), x)
  ELSE coalesceTail(a, x, x)

\* the forward half: the test reads only inuse, so it also accepts a
\* neighbour that sits in the tcache or in a fastbin.  A chunk of size 0
\* would be its own successor; that case is given the status "alias" and is
\* not followed.
coalesceForward(a, x) ==
  IF nextChunk(a, x) = x THEN Res([a EXCEPT !.status = "alias"], NULL)
  ELSE IF Has(a, nextChunk(a, x)) /\ ~a.mem[nextChunk(a, x)].inuse /\ nextChunk(a, x) # a.top
  THEN coalesceBackward(AbsorbNext(unlinkIfBinned(a, nextChunk(a, x)), x, nextChunk(a, x)), x)
  ELSE coalesceBackward(a, x)

\* coalesce(c) for the chunk at x: [a, c] with c the address of the result
coalesce(a, x) == coalesceForward(SetField(a, x, "inuse", FALSE), x)

Undead(a, x) == [a EXCEPT !.dead = [y \in (DOMAIN a.dead) \ {x} |-> a.dead[y]]]

\* rec is the chunk at x with the size of the top added:
\* mem.delete(top.addr); this.top = c.addr; mem.set(this.top, c);
\* setPrevInuseOnNext(c, false)
TopMerged(a, x, rec) ==
  setPrevInuseOnNext([Undead(MemSet(MemDelete(a, a.top), x, rec), x) EXCEPT !.top = x],
                     x, FALSE)

\* the chunk at x absorbs the top chunk and becomes the top
mergeIntoTop(a, x) ==
  IF ~Has(a, a.top) THEN Throw(a)
  ELSE TopMerged(a, x, [a.mem[x] EXCEPT !.size = @ + a.mem[a.top].size])

\* abutsTop that compares the end of the user data with the top
abutsTopPastHeader(a, x) == chunk2mem(x) + a.mem[x].size = a.top

abutsTop(a, x) == x + a.mem[x].size = a.top

\* co is the result of coalesce: into the top, or into the unsorted bin
placeCoalesced(co) ==
  IF ~Ok(co.a) THEN co.a
  ELSE IF abutsTop(co.a, co.c) THEN mergeIntoTop(co.a, co.c)
  ELSE insertUnsorted(co.a, co.c)

RECURSIVE consolidateFrom(_, _, _, _, _)

\* b is the arena after one chunk of fastbin i was moved; nh is the fd it had
consolidateNext(b, i, nh, fuel) ==
  IF ~Ok(b) THEN b ELSE consolidateFrom(b, i, nh, TRUE, fuel - 1)

\* b is the arena after this.fastbins[i] = null
consolidateBin(b, i, moved, fuel) ==
  consolidateFrom(b, i, IF i < NFASTBINS THEN b.fastbins[i + 1] ELSE NULL, moved, fuel)

\* the while loop of mallocConsolidate over fastbin i from head, then the
\* next bins
consolidateFrom(a, i, head, moved, fuel) ==
  IF i >= NFASTBINS
  THEN IF moved THEN log(a, [type |-> "consolidate"]) ELSE a
  ELSE IF head = NULL
  THEN consolidateBin([a EXCEPT !.fastbins[i + 1] = NULL], i + 1, moved, fuel)
  ELSE IF ~Has(a, head) THEN Throw(a)
  ELSE IF fuel = 0 THEN Hang(a)
  ELSE consolidateNext(placeCoalesced(coalesce(SetField(a, head, "fd", NULL), head)),
                       i, a.mem[head].fd, fuel)

\* the fastbin loop writes while it walks; it is cut after this many chunks
ConsolidateFuel(a) == 4 * (Cardinality(DOMAIN a.mem) + 1)

mallocConsolidate(a) == consolidateBin(a, 0, FALSE, ConsolidateFuel(a))

-----------------------------------------------------------------------------
(* free                                                                    *)

freeEvent(ptr, nb, into) == [type |-> "free", ptr |-> ptr, size |-> nb, into |-> into]

errorEvent(msg) == [type |-> "error", msg |-> msg]

\* co is the result of coalesce
freePlaced(co, ptr, nb) ==
  IF ~Ok(co.a) THEN co.a
  ELSE IF abutsTop(co.a, co.c)
  THEN LogOk(mergeIntoTop(co.a, co.c), freeEvent(ptr, nb, "top"))
  ELSE LogOk(insertUnsorted(co.a, co.c), freeEvent(ptr, nb, "unsorted"))

\* tp is the result of tcachePut
freeRouted(tp, ptr, x, nb) ==
  IF tp.put THEN log(tp.a, freeEvent(ptr, nb, "tcache"))
  ELSE IF fastbinIndex(nb) >= 0 THEN log(pushFastbin(tp.a, x), freeEvent(ptr, nb, "fastbin"))
  ELSE freePlaced(coalesce(tp.a, x), ptr, nb)

\* free that leaves the inuse flag set
freeChunkStillInuse(a, ptr, x) ==
  freeRouted(tcachePut(a, x), ptr, x, a.mem[x].size)

\* c.inuse = false, then tcache, fastbin, or coalesce
freeChunk(a, ptr, x) ==
  freeRouted(tcachePut(SetField(a, x, "inuse", FALSE), x), ptr, x, a.mem[x].size)

validPtr(a, ptr) ==
  /\ ptr # NULL
  /\ Has(a, mem2chunk(ptr))
  /\ a.mem[mem2chunk(ptr)].inuse

\* free without the test of the inuse flag
freeWithoutInuseTest(a, ptr) ==
  IF ptr = NULL THEN log(a, errorEvent("free(null)"))
  ELSE IF ~Has(a, mem2chunk(ptr)) THEN log(a, errorEvent("double free or invalid"))
  ELSE freeChunk(a, ptr, mem2chunk(ptr))

free(a, ptr) ==
  IF ptr = NULL THEN log(a, errorEvent("free(null)"))
  ELSE IF ~validPtr(a, ptr) THEN log(a, errorEvent("double free or invalid"))
  ELSE freeChunk(a, ptr, mem2chunk(ptr))

-----------------------------------------------------------------------------
(* malloc                                                                  *)

\* a malloc result: the arena and the user pointer returned (NULL: none)
Ret(a, p) == [a |-> a, ret |-> IF Ok(a) THEN p ELSE NULL]

\* top.size += ext.size, unless mem.set has just replaced the top by ext
GrowTop(b, t, e, grow) ==
  IF e = t THEN b ELSE SetField(b, t, "size", b.mem[t].size + grow)

\* makeChunk mints ext at nextAddr, the top grows by it and ext leaves the
\* map again.  When the top has size 0 it sits at nextAddr: mem.set replaces
\* it by ext, the growth goes to the replaced object, and the delete leaves
\* no chunk at this.top.
sysmallocBy(a, grow) ==
  log(MemDelete(GrowTop([MemSet(a, a.nextAddr, NewChunk(grow, TRUE, a.mem[a.top].size))
                           EXCEPT !.nextAddr = a.nextAddr + grow],
                        a.top, a.nextAddr, grow),
                a.nextAddr),
      [type |-> "sysmalloc", bytes |-> grow, oldTop |-> a.top, newTop |-> a.top])

sysmalloc(a, nb) ==
  IF ~Has(a, a.top) THEN Throw(a)
  ELSE sysmallocBy(a, alignUp(Max(nb, SYSMALLOC_MIN)))

mallocEvent(bytes, nb, x, source) ==
  [type |-> "malloc", bytes |-> bytes, nb |-> nb, result |-> chunk2mem(x), source |-> source]

\* c.inuse = true; setPrevInuseOnNext(c, true); log; return chunk2mem(c.addr)
takeWhole(a, x, bytes, nb, source) ==
  Ret(log(setPrevInuseOnNext(SetField(a, x, "inuse", TRUE), x, TRUE),
          mallocEvent(bytes, nb, x, source)),
      chunk2mem(x))

\* distribute remainder to small/large bin
binRemainder(b, r) ==
  IF smallbinIndex(b.mem[r].size) >= 0 THEN insertSmallbin(b, r) ELSE insertLargebin(b, r)

\* b is the arena after the remainder at r was binned
splitLogged(b, x, r, bytes, nb, source) ==
  IF ~Ok(b) THEN Ret(b, NULL)
  ELSE Ret(log(log(b, [type |-> "split", from |-> x, into |-> <<x, r>>,
                       sizes |-> <<b.mem[x].size, b.mem[r].size>>]),
               mallocEvent(bytes, nb, x, source)),
           chunk2mem(x))

\* mem.set(remainderAddr, remainder); u.size = nb; u.inuse = true;
\* setPrevInuseOnNext(u, true)
cutRemainder(a, x, nb) ==
  setPrevInuseOnNext(
    SetField(SetField(MemSet(a, x + nb, NewChunk(a.mem[x].size - nb, TRUE, nb)),
                      x, "size", nb),
             x, "inuse", TRUE),
    x, TRUE)

\* the chunk at x (taken from the unsorted bin or a largebin) is split
splitFit(a, x, bytes, nb, source) ==
  splitLogged(binRemainder(FixNext(cutRemainder(a, x, nb), x + nb), x + nb),
              x, x + nb, bytes, nb, source)

\* a variant of useFit that compares the remainder with the size of the
\* request instead of the smallest chunk that can stand alone
useFitComparesRequest(a, x, bytes, nb, source) ==
  IF a.mem[x].size - nb >= nb
  THEN splitFit(a, x, bytes, nb, source)
  ELSE takeWhole(a, x, bytes, nb, source)

useFit(a, x, bytes, nb, source) ==
  IF a.mem[x].size - nb >= MIN_CHUNK_SIZE + MALLOC_ALIGNMENT
  THEN splitFit(a, x, bytes, nb, source)
  ELSE takeWhole(a, x, bytes, nb, source)

\* a variant of cutTop in which the new top keeps the size of the old one
cutTopKeepsSize(b, nb) ==
  [MemSet(SetField(SetField(b, b.top, "inuse", TRUE), b.top, "size", nb),
          b.top + nb, NewChunk(b.mem[b.top].size, TRUE, nb))
     EXCEPT !.top = b.top + nb]

\* use.inuse = true; use.size = nb; mem.set(remainderAddr, remainder);
\* this.top = remainderAddr, for use the chunk at this.top
cutTop(b, nb) ==
  [MemSet(SetField(SetField(b, b.top, "inuse", TRUE), b.top, "size", nb),
          b.top + nb, NewChunk(b.mem[b.top].size - nb, TRUE, nb))
     EXCEPT !.top = b.top + nb]

\* b is the arena after the optional sysmalloc
topSplit(b, bytes, nb) ==
  IF ~Ok(b) THEN Ret(b, NULL)
  ELSE IF ~Has(b, b.top) THEN Ret(Throw(b), NULL)
  ELSE Ret(log(FixNext(cutTop(b, nb), b.top + nb), mallocEvent(bytes, nb, b.top, <<"top">>)),
           chunk2mem(b.top))

\* step 6: topSize is the size of the chunk object that malloc fetched as
\* the top before the optional consolidation
mallocFromTop(a, bytes, nb, topSize) ==
  topSplit(IF topSize < nb THEN sysmalloc(a, nb) ELSE a, bytes, nb)

\* lb is the result of findLargebinFit
afterLargebin(lb, bytes, nb, topSize) ==
  IF ~Ok(lb.a) THEN Ret(lb.a, NULL)
  ELSE IF lb.c # NULL THEN useFit(lb.a, lb.c, bytes, nb, <<"largebin">>)
  ELSE mallocFromTop(lb.a, bytes, nb, topSize)

\* u is the result of popFromUnsorted
afterUnsorted(u, bytes, nb, topSize) ==
  IF ~Ok(u.a) THEN Ret(u.a, NULL)
  ELSE IF u.c # NULL THEN useFit(u.a, u.c, bytes, nb, <<"unsorted">>)
  ELSE afterLargebin(findLargebinFit(u.a, nb), bytes, nb, topSize)

\* sb is the result of takeFromSmallbin
afterSmallbin(sb, bytes, nb, topSize) ==
  IF ~Ok(sb.a) THEN Ret(sb.a, NULL)
  ELSE IF sb.c # NULL THEN takeWhole(sb.a, sb.c, bytes, nb, <<"smallbin", smallbinIndex(nb)>>)
  ELSE afterUnsorted(popFromUnsorted(sb.a, nb), bytes, nb, topSize)

\* b is the arena after the optional consolidation, t the address at which
\* malloc fetched the top object before it
afterConsolidate(b, t, bytes, nb) ==
  IF ~Ok(b) THEN Ret(b, NULL)
  ELSE afterSmallbin(IF smallbinIndex(nb) >= 0 THEN takeFromSmallbin(b, smallbinIndex(nb))
                     ELSE Res(b, NULL),
                     bytes, nb,
                     IF t \in DOMAIN b.dead THEN b.dead[t] ELSE b.mem[t].size)

\* const top = this.mem.get(this.top)!; consolidate when top.size is below
\* the threshold
mallocAfterFast(a, bytes, nb) ==
  IF ~Has(a, a.top) THEN Ret(Throw(a), NULL)
  ELSE afterConsolidate(IF a.mem[a.top].size < FASTBIN_CONSOLIDATION_THRESHOLD
                        THEN mallocConsolidate(a) ELSE a,
                        a.top, bytes, nb)

\* fb is the result of popFastbinForSize
afterFastbin(fb, bytes, nb) ==
  IF ~Ok(fb.a) THEN Ret(fb.a, NULL)
  ELSE IF fb.c # NULL THEN takeWhole(fb.a, fb.c, bytes, nb, <<"fastbin">>)
  ELSE mallocAfterFast(fb.a, bytes, nb)

\* tc is the result of tcacheGet
afterTcache(tc, bytes, nb) ==
  IF tc.c # NULL THEN takeWhole(tc.a, tc.c, bytes, nb, <<"tcache">>)
  ELSE afterFastbin(popFastbinForSize(tc.a, nb), bytes, nb)

malloc(a, bytes) ==
  afterTcache(tcacheGet(a, request2size(bytes)), bytes, request2size(bytes))

-----------------------------------------------------------------------------
(* snapshot                                                                *)

\* the fields of an ArenaSnapshot that hold an array, a record or a table
SnapshotFields == {"fastbins", "smallbins", "largebins", "tcache", "chunks"}

\* chunks[addr] = { size: c.size, ... } for every entry of mem: a new object
\* per chunk, with the eight fields copied
snapshotChunks(a) ==
  [x \in DOMAIN a.mem |->
     [size |-> a.mem[x].size, prev_size |-> a.mem[x].prev_size,
      inuse |-> a.mem[x].inuse, prev_inuse |-> a.mem[x].prev_inuse,
      fd |-> a.mem[x].fd, bk |-> a.mem[x].bk,
      fd_nextsize |-> a.mem[x].fd_nextsize, bk_nextsize |-> a.mem[x].bk_nextsize]]

\* the object snapshot returns.  shares is the set of its fields that are
\* the arena's own storage instead of a copy: the arrays are spread into
\* new arrays and chunks and tcacheObj are built anew, so it is empty
snapshotOf(a) ==
  [top |-> a.top, topSize |-> a.mem[a.top].size,
   fastbins |-> a.fastbins, unsorted |-> a.unsorted,
   smallbins |-> a.smallbins, largebins |-> a.largebins,
   tcache |-> a.tcache, chunks |-> snapshotChunks(a),
   shares |-> {}]

\* topChunk = this.mem.get(this.top)!; topChunk.size throws when arena.top
\* names no chunk
snapshot(a) ==
  IF ~Has(a, a.top) THEN [a |-> Throw(a), snap |-> NULL]
  ELSE [a |-> a, snap |-> snapshotOf(a)]

\* what field f of the snapshot s reads as when the arena is a: the copy
\* made by snapshot, or the arena's storage when the field shares it
SeenField(s, a, f) ==
  IF f \notin s.shares THEN s[f]
  ELSE IF f = "chunks" THEN snapshotChunks(a)
  ELSE a[f]

\* the content of the snapshot s as read when the arena is a
Seen(s, a) ==
  [top |-> s.top, topSize |-> s.topSize, unsorted |-> s.unsorted,
   fields |-> [f \in SnapshotFields |-> SeenField(s, a, f)]]

-----------------------------------------------------------------------------
(* The state machine: a caller makes up to MaxOps calls on a new Arena     *)

Arena ==
  [mem |-> mem, nextAddr |-> nextAddr, top |-> top, fastbins |-> fastbins,
   unsorted |-> unsorted, smallbins |-> smallbins, largebins |-> largebins,
   tcache |-> tcache, events |-> events, status |-> "ok", dead |-> NoDead]

Commit(a) ==
  /\ mem' = a.mem
  /\ nextAddr' = a.nextAddr
  /\ top' = a.top
  /\ fastbins' = a.fastbins
  /\ unsorted' = a.unsorted
  /\ smallbins' = a.smallbins
  /\ largebins' = a.largebins
  /\ tcache' = a.tcache
  /\ events' = a.events

\* new Arena(initialHeapBytes)
NewArena ==
  /\ mem = [x \in {HEAP_BASE} |-> NewChunk(alignUp(InitialHeapBytes), TRUE, 0)]
  /\ nextAddr = HEAP_BASE + alignUp(InitialHeapBytes)
  /\ top = HEAP_BASE
  /\ fastbins = [i \in 1..NFASTBINS |-> NULL]
  /\ unsorted = NULL
  /\ smallbins = [i \in 1..NBINS_SMALL |-> NULL]
  /\ largebins = [i \in 1..NLARGEBINS |-> NULL]
  /\ tcache = [s \in {} |-> <<>>]
  /\ events = <<>>

\* the caller has made no call yet
NoCallYet ==
  /\ ptrs = {}
  /\ live = [p \in {} |-> 0]
  /\ lastOp = [op |-> "new", arg |-> InitialHeapBytes, status |-> "ok", ret |-> NULL]

Init == NewArena /\ NoCallYet /\ left = MaxOps

\* a call that hung never returns: no call follows it
CanCall == left > 0 /\ lastOp.status \in {"ok", "throw"}

\* live after malloc returned p
Returned(p) ==
  [q \in (DOMAIN live) \cup {p} |-> IF q = p /\ q \in DOMAIN live THEN live[q] + 1
                                     ELSE IF q = p THEN 1 ELSE live[q]]

\* r is what malloc returned or how it ended
MallocDone(r, bytes) ==
  /\ Commit(r.a)
  /\ ptrs' = IF r.ret # NULL THEN ptrs \cup {r.ret} ELSE ptrs
  /\ live' = IF r.ret # NULL THEN Returned(r.ret) ELSE live
  /\ lastOp' = [op |-> "malloc", arg |-> bytes, status |-> r.a.status, ret |-> r.ret]
  /\ left' = left - 1

\* a is the arena as free or mallocConsolidate left it; gone is the set of
\* pointers the call released
VoidDone(a, op, arg, gone) ==
  /\ Commit(a)
  /\ live' = [p \in (DOMAIN live) \ gone |-> live[p]]
  /\ lastOp' = [op |-> op, arg |-> arg, status |-> a.status, ret |-> NULL]
  /\ left' = left - 1
  /\ UNCHANGED ptrs

Malloc(bytes) == CanCall /\ MallocDone(malloc(Arena, bytes), bytes)

\* a release is successful when free accepts the pointer and returns
Released(a, ptr) == IF validPtr(Arena, ptr) /\ Ok(a) THEN {ptr} ELSE {}

Free(ptr) ==
  CanCall /\ VoidDone(free(Arena, ptr), "free", ptr, Released(free(Arena, ptr), ptr))

Consolidate == CanCall /\ VoidDone(mallocConsolidate(Arena), "consolidate", NULL, {})

Next ==
  \/ \E bytes \in Requests : Malloc(bytes)
  \/ \E ptr \in ptrs \cup {NULL, BadPtr} : Free(ptr)
  \/ Consolidate

Spec == Init /\ [][Next]_vars

\* longer call sequences over fewer request sizes, and only pointers that
\* malloc returned are released
InitDeep == NewArena /\ NoCallYet /\ left = DeepOps

NextDeep ==
  \/ \E bytes \in DeepRequests : Malloc(bytes)
  \/ \E ptr \in ptrs : Free(ptr)
  \/ Consolidate

SpecDeep == InitDeep /\ [][NextDeep]_vars

Highest(S) == CHOOSE p \in S : \A q \in S : q <= p

\* every allocate made so far asked for this many bytes
OnlyRequest(bytes) ==
  \A i \in 1..Len(events) : events[i].type = "malloc" => events[i].bytes = bytes

\* a caller that asks for chunks of one size, a tcache size or the fastbin
\* size above it, and releases the highest pointer it holds, long enough to
\* fill a tcache slot and put two more chunks behind it
InitFill == NewArena /\ NoCallYet /\ left = FillOps

NextFill ==
  \/ \E bytes \in FillRequests : OnlyRequest(bytes) /\ Malloc(bytes)
  \/ \E ptr \in {p \in DOMAIN live : p = Highest(DOMAIN live)} : Free(ptr)

SpecFill == InitFill /\ [][NextFill]_vars

\* the pointers the caller holds to chunks of the large block size
HoldsLarge ==
  {p \in DOMAIN live : mem2chunk(p) \in DOMAIN mem
                         /\ mem[mem2chunk(p)].size = request2size(2000)}

\* a caller that keeps its small blocks and releases large ones, whose
\* remainders fill the largebins
InitLarge == NewArena /\ NoCallYet /\ left = LargeOps

NextLarge ==
  \/ \E bytes \in LargeRequests : Malloc(bytes)
  \/ \E ptr \in HoldsLarge : Free(ptr)

SpecLarge == InitLarge /\ [][NextLarge]_vars

\* the pointers the caller holds to chunks of the medium block size
HoldsMedium ==
  {p \in DOMAIN live : mem2chunk(p) \in DOMAIN mem
                         /\ mem[mem2chunk(p)].size = request2size(400)}

\* the number of allocate calls made so far that asked for bytes
Asked(bytes) ==
  Cardinality({k \in 1..Len(events) : events[k].type = "malloc" /\ events[k].bytes = bytes})

SmallQuota(bytes) ==
  IF bytes = 400 THEN MaxMedium ELSE IF bytes = 344 THEN MaxExact ELSE SmallOps

\* a caller that keeps its small blocks and releases medium ones, whose
\* remainders fill a smallbin
InitSmall == NewArena /\ NoCallYet /\ left = SmallOps

NextSmall ==
  \/ \E bytes \in SmallRequests : Asked(bytes) < SmallQuota(bytes) /\ Malloc(bytes)
  \/ \E ptr \in HoldsMedium : Free(ptr)

SpecSmall == InitSmall /\ [][NextSmall]_vars

\* a caller that asks for three large blocks at most, releases them, and
\* cuts remainders off them that collect in one largebin
RingQuota(bytes) ==
  IF bytes = 2000 THEN MaxLarge ELSE MaxCuts

InitRing == NewArena /\ NoCallYet /\ left = RingOps

NextRing ==
  \/ \E bytes \in LargeRequests : Asked(bytes) < RingQuota(bytes) /\ Malloc(bytes)
  \/ \E ptr \in HoldsLarge : Free(ptr)

SpecRing == InitRing /\ [][NextRing]_vars

\* a caller that keeps its small blocks and releases medium and large ones,
\* which wait in the unsorted bin in the order of their release
InitFit == NewArena /\ NoCallYet /\ left = FitOps

NextFit ==
  \/ \E bytes \in LargeRequests : Malloc(bytes)
  \/ \E ptr \in HoldsLarge \cup HoldsMedium : Free(ptr)

SpecFit == InitFit /\ [][NextFit]_vars

\* a caller that asks for blocks of 500 and 2000 bytes and releases any
\* pointer it was given
InitSplit == NewArena /\ NoCallYet /\ left = SplitOps

NextSplit ==
  \/ \E bytes \in SplitRequests : Malloc(bytes)
  \/ \E ptr \in ptrs : Free(ptr)

SpecSplit == InitSplit /\ [][NextSplit]_vars

-----------------------------------------------------------------------------
(* Reading the state: members of the containers, physical neighbours       *)

Range(q) == {q[i] : i \in 1..Len(q)}

\* the addresses met walking link f from head, each once, in order; the walk
\* ends at null, at an address that holds no chunk, or when it comes back
RECURSIVE WalkFrom(_, _, _)
WalkFrom(cur, f, acc) ==
  IF cur = NULL \/ cur \in Range(acc) THEN acc
  ELSE IF cur \notin DOMAIN mem THEN Append(acc, cur)
  ELSE WalkFrom(mem[cur][f], f, Append(acc, cur))

FastbinList(i) == WalkFrom(fastbins[i + 1], "fd", <<>>)
UnsortedList == WalkFrom(unsorted, "fd", <<>>)
SmallbinList(i) == WalkFrom(smallbins[i + 1], "fd", <<>>)
LargebinList(i) == WalkFrom(largebins[i + 1], "fd", <<>>)
LargebinSizeList(i) == WalkFrom(largebins[i + 1], "fd_nextsize", <<>>)

\* the bins that hold something
UsedFastbins == {i \in 0..(NFASTBINS - 1) : fastbins[i + 1] # NULL}
UsedSmallbins == {i \in 0..(NBINS_SMALL - 1) : smallbins[i + 1] # NULL}
UsedLargebins == {i \in 0..(NLARGEBINS - 1) : largebins[i + 1] # NULL}

TcacheMembers == UNION {Range(tcache[s]) : s \in DOMAIN tcache}
FastbinMembers == UNION {Range(FastbinList(i)) : i \in UsedFastbins}
UnsortedMembers == Range(UnsortedList)
SmallbinMembers == UNION {Range(SmallbinList(i)) : i \in UsedSmallbins}
LargebinMembers ==
  UNION {Range(LargebinList(i)) \cup Range(LargebinSizeList(i)) : i \in UsedLargebins}

Binned == FastbinMembers \cup UnsortedMembers \cup SmallbinMembers \cup LargebinMembers

\* number of places (container, position) at which address x is stored
Occurrences(x) ==
    Cardinality({sk \in UNION {{s} \X (1..Len(tcache[s])) : s \in DOMAIN tcache} :
                   tcache[sk[1]][sk[2]] = x})
  + Cardinality({i \in UsedFastbins : x \in Range(FastbinList(i))})
  + (IF x \in UnsortedMembers THEN 1 ELSE 0)
  + Cardinality({i \in UsedSmallbins : x \in Range(SmallbinList(i))})
  + Cardinality({i \in UsedLargebins :
                   x \in Range(LargebinList(i)) \cup Range(LargebinSizeList(i))})

Chunks == DOMAIN mem

HasSuccessor(x) == x + mem[x].size \in Chunks

-----------------------------------------------------------------------------
(* Properties                                                              *)

\* C1: every chunk in use is stored in no tcache slot, fastbin, unsorted
\* list, smallbin or largebin, and neither is the top chunk
InUseAndTopInNoContainer ==
  /\ \A c \in Chunks : mem[c].inuse => Occurrences(c) = 0
  /\ Occurrences(top) = 0

\* C2: every free chunk of the table other than the top is stored in exactly
\* one container, exactly once
FreeChunkInOneContainerOnce ==
  \A c \in Chunks : (~mem[c].inuse /\ c # top) => Occurrences(c) = 1

Overlap(c, d) == c < d + mem[d].size /\ d < c + mem[c].size

\* C3: malloc returns no pointer that it returned before and that was not
\* released since, and the chunk it returns overlaps no other chunk in use
NoLivePointerTwice ==
  /\ \A p \in DOMAIN live : live[p] <= 1
  /\ (lastOp.op = "malloc" /\ lastOp.ret # NULL /\ mem2chunk(lastOp.ret) \in Chunks)
       => \A d \in Chunks \ {mem2chunk(lastOp.ret)} :
            mem[d].inuse => ~Overlap(mem2chunk(lastOp.ret), d)

\* C4: malloc throws nothing and returns a pointer that is not null
MallocAlwaysReturns ==
  lastOp.op = "malloc" => lastOp.status = "ok" /\ lastOp.ret # NULL

\* C5: the top is a chunk of the table, it is free, it is the only chunk
\* with no successor in the table, and it ends at the high-water mark
TopIsTerminalFreeChunk ==
  /\ top \in Chunks
  /\ ~mem[top].inuse
  /\ \A c \in Chunks : ~HasSuccessor(c) <=> c = top
  /\ top + mem[top].size = nextAddr

\* C6: every chunk of the table has a size of at least 16 that is a
\* multiple of 16
SizesAlignedAndPositive ==
  \A c \in Chunks : mem[c].size >= MALLOC_ALIGNMENT /\ mem[c].size % MALLOC_ALIGNMENT = 0

\* C7: the chunks are pairwise disjoint and their union is the interval
\* from the base address to the high-water mark
ChunksTileHeap ==
  /\ \A c, d \in Chunks : c # d => ~Overlap(c, d)
  /\ \A c \in Chunks : HEAP_BASE <= c /\ c + mem[c].size <= nextAddr
  /\ HEAP_BASE \in Chunks
  /\ \A c \in Chunks : c + mem[c].size = nextAddr \/ HasSuccessor(c)

\* C8: the successor of a tcache or fastbin member has prev_inuse set; the
\* successor of any other chunk has prev_inuse equal to that chunk's inuse
PrevInuseMirrorsPredecessor ==
  \A c \in Chunks : HasSuccessor(c) =>
     IF c \in TcacheMembers \cup FastbinMembers
     THEN mem[c + mem[c].size].prev_inuse
     ELSE mem[c + mem[c].size].prev_inuse = mem[c].inuse

\* C9: a chunk with prev_inuse clear has in prev_size the size of the chunk
\* that ends where it begins
PrevSizeIsPredecessorSize ==
  \A n \in Chunks : ~mem[n].prev_inuse =>
     \E c \in Chunks : c + mem[c].size = n /\ mem[n].prev_size = mem[c].size

\* C10: free of a pointer that is null, or that is no chunk address plus 16,
\* or whose chunk is not in use, changes no chunk, no bin, not the tcache and
\* not the top, appends exactly one 'error' event, and returns
InvalidFreeOnlyLogsError ==
  [][(lastOp'.op = "free" /\ ~validPtr(Arena, lastOp'.arg)) =>
       /\ UNCHANGED <<mem, nextAddr, top, fastbins, unsorted, smallbins, largebins, tcache>>
       /\ Len(events') = Len(events) + 1
       /\ SubSeq(events', 1, Len(events)) = events
       /\ events'[Len(events')].type = "error"
       /\ lastOp'.status = "ok"]_vars

\* a free of a pointer whose chunk is in the table and not in use was refused
DoubleFreeRefused ==
  /\ lastOp.op = "free"
  /\ lastOp.status = "ok"
  /\ lastOp.arg # NULL
  /\ mem2chunk(lastOp.arg) \in Chunks
  /\ ~mem[mem2chunk(lastOp.arg)].inuse
  /\ Len(events) > 0
  /\ events[Len(events)] = errorEvent("double free or invalid")

\* C11: a free of the pointer that the call just before it was a free of
\* changes no chunk, no bin, not the tcache and not the top, and appends
\* exactly one 'error' event with the message 'double free or invalid'
SecondFreeRejected ==
  [][(lastOp.op = "free" /\ lastOp'.op = "free" /\ left' = left - 1
        /\ lastOp'.arg = lastOp.arg /\ lastOp.arg \in ptrs) =>
       /\ UNCHANGED <<mem, nextAddr, top, fastbins, unsorted, smallbins, largebins, tcache>>
       /\ events' = Append(events, errorEvent("double free or invalid"))
       /\ lastOp'.status = "ok"]_vars

\* the first free merged the chunk into the free chunk before it, so that
\* its address left the table, and the second free of the pointer was refused
AbsorbedThenRefused ==
  /\ lastOp.op = "free"
  /\ lastOp.arg \in ptrs
  /\ mem2chunk(lastOp.arg) \notin Chunks
  /\ Len(events) > 1
  /\ events[Len(events)] = errorEvent("double free or invalid")
  /\ events[Len(events) - 1].type = "free"
  /\ events[Len(events) - 1].ptr = lastOp.arg
  /\ events[Len(events) - 1].into = "unsorted"

\* the chunks of the table that are stored in a tcache slot or a fastbin
Cached == (TcacheMembers \cup FastbinMembers) \cap Chunks

\* C12: a free leaves every chunk that is a member of a tcache slot or of a
\* fastbin in the table, with its size and as such a member; a consolidate
\* does so for every member of a tcache slot
CoalesceSparesCached ==
  [][/\ (lastOp'.op = "free" /\ left' = left - 1) =>
          \A x \in Cached :
             /\ x \in DOMAIN mem'
             /\ mem'[x].size = mem[x].size
             /\ x \in (TcacheMembers \cup FastbinMembers)'
     /\ (lastOp'.op = "consolidate" /\ left' = left - 1) =>
          \A x \in TcacheMembers \cap Chunks :
             /\ x \in DOMAIN mem'
             /\ mem'[x].size = mem[x].size
             /\ x \in TcacheMembers']_vars

\* C13: every address in tcache slot s is a chunk of the table that is not
\* in use and has size s
TcacheEntriesAreFreeChunksOfSlotSize ==
  \A s \in DOMAIN tcache : \A i \in 1..Len(tcache[s]) :
     /\ tcache[s][i] \in Chunks
     /\ ~mem[tcache[s][i]].inuse
     /\ mem[tcache[s][i]].size = s

\* C14: no tcache slot holds more than 7 addresses, and there are slots
\* only for sizes up to request2size(64) = 80
TcacheSlotsBounded ==
  \A s \in DOMAIN tcache :
     /\ Len(tcache[s]) <= TCACHE_BIN_LIMIT
     /\ s <= request2size(TCACHE_MAX)

\* a free found the tcache slot of its chunk full and went to the fastbin
TcacheSlotFull ==
  /\ lastOp.op = "free"
  /\ events[Len(events)].type = "free"
  /\ events[Len(events)].into = "fastbin"
  /\ events[Len(events)].size \in DOMAIN tcache
  /\ Len(tcache[events[Len(events)].size]) = TCACHE_BIN_LIMIT

\* C15: mallocConsolidate returns, and when it has returned every fastbin
\* head is null and no chunk is a member of a fastbin
ConsolidateDrainsFastbins ==
  lastOp.op = "consolidate" =>
     /\ lastOp.status = "ok"
     /\ \A i \in 1..NFASTBINS : fastbins[i] = NULL
     /\ FastbinMembers = {}

\* the events that the step appends to the log
Appended == SubSeq(events', Len(events) + 1, Len(events'))

ConsolidateEvents(q) == {i \in 1..Len(q) : q[i].type = "consolidate"}

NoFastbinChunk == \A i \in 1..NFASTBINS : fastbins[i] = NULL

ConsolidateCall == lastOp'.op = "consolidate" /\ left' = left - 1

\* C16, part: a mallocConsolidate called with every fastbin empty changes
\* nothing and appends no event, and the second of two calls in a row
\* appends no 'consolidate' event when the first appended one
ConsolidateTwiceIsOnce ==
  [][/\ (ConsolidateCall /\ NoFastbinChunk) =>
          /\ UNCHANGED <<mem, nextAddr, top, fastbins, unsorted, smallbins, largebins,
                         tcache, events>>
          /\ lastOp'.status = "ok"
     /\ (ConsolidateCall /\ lastOp.op = "consolidate" /\ Len(events) > 0
           /\ events[Len(events)].type = "consolidate") =>
          ConsolidateEvents(Appended) = {}]_vars

\* C16: a mallocConsolidate called with every fastbin empty changes nothing
\* and appends no event; two calls in a row append at most one
\* 'consolidate' event; and a call appends one exactly when a fastbin held
\* a chunk for it to move
ConsolidateIdempotent ==
  /\ ConsolidateTwiceIsOnce
  /\ [][ConsolidateCall =>
          /\ Cardinality(ConsolidateEvents(Appended)) <= 1
          /\ (ConsolidateEvents(Appended) # {}) <=> ~NoFastbinChunk]_vars


\* the k-th event from the end of the log
EventBack(k) == events[Len(events) - k]

\* the call just made released ptr into the tcache
FreedIntoTcache(k) ==
  /\ Len(events) > k + 1
  /\ EventBack(k).type = "free" /\ EventBack(k).into = "tcache"
  /\ EventBack(k + 1).type = "tcache-put" /\ EventBack(k + 1).size = EventBack(k).size

\* the last two calls were release(p1); release(p2), both into the tcache
\* slot of one size
TwoFreedIntoTcache ==
  /\ lastOp.op = "free" /\ FreedIntoTcache(0) /\ FreedIntoTcache(2)
  /\ lastOp.arg = EventBack(0).ptr
  /\ EventBack(2).size = EventBack(0).size

\* the last two calls were allocate(n) -> p; release(p) into the tcache
MallocThenFreedIntoTcache ==
  /\ lastOp.op = "free" /\ FreedIntoTcache(0) /\ Len(events) > 2
  /\ lastOp.arg = EventBack(0).ptr
  /\ EventBack(2).type = "malloc" /\ EventBack(2).result = EventBack(0).ptr

MallocCall(bytes) == lastOp'.op = "malloc" /\ lastOp'.arg = bytes /\ left' = left - 1

ServedFrom(p, source) ==
  /\ lastOp'.status = "ok" /\ lastOp'.ret = p
  /\ events'[Len(events')].type = "malloc"
  /\ events'[Len(events')].result = p
  /\ events'[Len(events')].source = source

\* C17: after release(p1); release(p2) that both go into the tcache slot
\* of one chunk size, allocate of that size returns p2 with a malloc event
\* of source 'tcache'; and after allocate(n) -> p; release(p) into the
\* tcache, allocate(n) returns p again
TcacheLIFO ==
  [][\A bytes \in Requests :
       /\ (TwoFreedIntoTcache /\ MallocCall(bytes) /\ request2size(bytes) = EventBack(0).size)
            => ServedFrom(lastOp.arg, <<"tcache">>)
       /\ (MallocThenFreedIntoTcache /\ MallocCall(bytes) /\ bytes = EventBack(2).bytes)
            => ServedFrom(lastOp.arg, <<"tcache">>)]_vars

\* release(p1); release(p2); allocate gave p2 back while p1 stays cached
TcacheGaveLastFreed ==
  /\ lastOp.op = "malloc" /\ Len(events) > 5
  /\ EventBack(0).type = "malloc" /\ EventBack(0).source = <<"tcache">>
  /\ EventBack(1).type = "tcache-get"
  /\ EventBack(2).type = "free" /\ EventBack(2).into = "tcache"
  /\ EventBack(4).type = "free" /\ EventBack(4).into = "tcache"
  /\ EventBack(4).size = EventBack(2).size
  /\ EventBack(4).ptr # EventBack(2).ptr
  /\ lastOp.ret = EventBack(2).ptr
  /\ mem2chunk(EventBack(4).ptr) \in Range(tcache[EventBack(2).size])


FreedIntoFastbin(k) ==
  /\ Len(events) > k + 1
  /\ EventBack(k).type = "free" /\ EventBack(k).into = "fastbin"
  /\ EventBack(k + 1).type = "bin-insert" /\ EventBack(k + 1).size = EventBack(k).size

\* the last two calls were release(p1); release(p2), both into the fastbin
\* of one chunk size
TwoFreedIntoFastbin ==
  /\ lastOp.op = "free" /\ FreedIntoFastbin(0) /\ FreedIntoFastbin(2)
  /\ lastOp.arg = EventBack(0).ptr
  /\ EventBack(2).size = EventBack(0).size

TcacheSlotIsFull(s) == s \in DOMAIN tcache /\ Len(tcache[s]) = TCACHE_BIN_LIMIT

AboveTcache(s) == ~tcacheEligible(s) /\ fastbinIndex(s) >= 0

RECURSIVE NonDecreasing(_)
NonDecreasing(q) ==
  IF Len(q) < 2 THEN TRUE ELSE q[1] <= q[2] /\ NonDecreasing(Tail(q))

\* C20: in every non-empty largebin each member is on the address ring
\* and on the size ring, and one revolution of the size ring from the head
\* of the bin visits chunk sizes in non-decreasing order
LargebinSizeRingSorted ==
  \A i \in UsedLargebins :
    /\ Range(LargebinSizeList(i)) = Range(LargebinList(i))
    /\ NonDecreasing([k \in 1..Len(LargebinSizeList(i)) |-> mem[LargebinSizeList(i)[k]].size])


LargebinChunks(i) == (Range(LargebinList(i)) \cup Range(LargebinSizeList(i))) \cap Chunks

\* the chunks of largebin i that can serve a request of chunk size nb
LargebinFits(i, nb) == {x \in LargebinChunks(i) : mem[x].size >= nb}

\* the largebins from that of nb upward that hold a chunk of size >= nb
BinsWithFit(nb) ==
  {i \in largebinIndex(nb)..(NLARGEBINS - 1) : LargebinFits(i, nb) # {}}

\* the step is an allocate that was served from a largebin
ServedFromLargebin ==
  /\ lastOp'.op = "malloc" /\ left' = left - 1 /\ lastOp'.status = "ok"
  /\ events'[Len(events')].type = "malloc"
  /\ events'[Len(events')].source = <<"largebin">>

\* C19: the chunk an allocate takes from a largebin is one of minimum size
\* among the chunks of size >= nb in the first largebin, from
\* largebinIndex(nb) upward, that holds a chunk of size >= nb
LargebinBestFit ==
  [][ServedFromLargebin =>
       /\ BinsWithFit(request2size(lastOp'.arg)) # {}
       /\ mem2chunk(lastOp'.ret)
            \in LargebinFits(FirstBin(BinsWithFit(request2size(lastOp'.arg))),
                             request2size(lastOp'.arg))
       /\ \A y \in LargebinFits(FirstBin(BinsWithFit(request2size(lastOp'.arg))),
                                request2size(lastOp'.arg)) :
            mem[mem2chunk(lastOp'.ret)].size <= mem[y].size]_vars


\* the position in the log q of the last insertion of the chunk at x into
\* bin, 0 when there is none
LastInsertIn(q, x, bin) ==
  LET S == {k \in 1..Len(q) : /\ q[k].type = "bin-insert"
                              /\ q[k].bin = bin /\ q[k].addr = x}
  IN IF S = {} THEN 0 ELSE CHOOSE k \in S : \A j \in S : j <= k

LastInsert(x, bin) == LastInsertIn(events', x, bin)

\* the step is an allocate that was served from smallbin i
ServedFromSmallbin(i) ==
  /\ lastOp'.op = "malloc" /\ left' = left - 1 /\ lastOp'.status = "ok"
  /\ events'[Len(events')].type = "malloc"
  /\ events'[Len(events')].source = <<"smallbin", i>>

\* C21: the chunk an allocate takes from smallbin[i] was a member of the
\* bin, and it was inserted before every chunk that stays in the bin
SmallbinFIFO ==
  [][\A i \in 0..(NBINS_SMALL - 1) :
       ServedFromSmallbin(i) =>
         /\ mem2chunk(lastOp'.ret) \in Range(SmallbinList(i))
         /\ LastInsert(mem2chunk(lastOp'.ret), <<"smallbin", i>>) > 0
         /\ \A y \in Range(SmallbinList(i))' :
              LastInsert(mem2chunk(lastOp'.ret), <<"smallbin", i>>)
                < LastInsert(y, <<"smallbin", i>>)]_vars


\* the bin-unlink events of bin in the log that did not serve an allocate:
\* the chunk left the bin to be coalesced
CoalescedOutOf(bin) ==
  {k \in 1..(Len(events) - 1) : /\ events[k].type = "bin-unlink" /\ events[k].bin = bin
                                /\ events[k + 1].type # "malloc"}

\* an allocate took from a smallbin the chunk that became its head when
\* an older member was unlinked by coalescing
TookOldestOfSmallbin ==
  /\ lastOp.op = "malloc" /\ lastOp.status = "ok" /\ Len(events) > 1
  /\ EventBack(0).type = "malloc" /\ EventBack(0).source[1] = "smallbin"
  /\ \E k \in CoalescedOutOf(EventBack(0).source) :
       /\ LastInsertIn(events, events[k].addr, EventBack(0).source) > 0
       /\ LastInsertIn(events, events[k].addr, EventBack(0).source)
            < LastInsertIn(events, mem2chunk(lastOp.ret), EventBack(0).source)
       /\ LastInsertIn(events, mem2chunk(lastOp.ret), EventBack(0).source) < k


SortedBinMembers == (UnsortedMembers \cup SmallbinMembers \cup LargebinMembers) \cap Chunks

\* the unsorted bin, the smallbins and the largebins of arena a have the
\* heads they have in the current state, and the chunks that are members of
\* them in the current state are stored unchanged in a
BinsAsBefore(a) ==
  /\ a.unsorted = unsorted /\ a.smallbins = smallbins /\ a.largebins = largebins
  /\ \A x \in SortedBinMembers : Has(a, x) /\ a.mem[x] = mem[x]

\* r is the result of allocate in the current state: release of the
\* pointer it returned
ReleasedAfter(r) == free(r.a, r.ret)

Allocated(r) == Ok(r.a) /\ r.ret # NULL

RoundTripKeepsBins(r) ==
  Allocated(r) => Ok(ReleasedAfter(r)) /\ BinsAsBefore(ReleasedAfter(r))

\* C22: in every reachable state, allocate(n) -> p followed at once by
\* release(p) leaves the unsorted bin, every smallbin and every largebin
\* with the members, the order and the chunks they have in that state
RoundTrip == \A bytes \in Requests : RoundTripKeepsBins(malloc(Arena, bytes))


LastEventOf(a) == a.events[Len(a.events)]

\* the events that the calls leading to arena a appended to the log of the
\* current state
AppendedIn(a) == SubSeq(a.events, Len(events) + 1, Len(a.events))

NoMerging(a) ==
  \A k \in 1..Len(AppendedIn(a)) : AppendedIn(a)[k].type \notin {"coalesce", "consolidate"}

\* allocate found its chunk in the tcache, in a fastbin or at the top and
\* consolidated nothing, and release put the chunk in the tcache or in a
\* fastbin
FastRoundTrip(r) ==
  /\ Allocated(r)
  /\ LastEventOf(r.a).source \in {<<"tcache">>, <<"fastbin">>, <<"top">>}
  /\ NoMerging(r.a)
  /\ Ok(ReleasedAfter(r))
  /\ LastEventOf(ReleasedAfter(r)).type = "free"
  /\ LastEventOf(ReleasedAfter(r)).into \in {"tcache", "fastbin"}

FastRoundTripKeepsBins(r) == FastRoundTrip(r) => BinsAsBefore(ReleasedAfter(r))

\* C22, part: allocate(n) -> p followed at once by release(p) leaves the
\* unsorted bin, every smallbin and every largebin as they are when
\* allocate is served from the tcache, a fastbin or the top without
\* consolidating and release puts p in the tcache or in a fastbin
RoundTripOfFastChunk ==
  \A bytes \in Requests : FastRoundTripKeepsBins(malloc(Arena, bytes))


\* the addresses met walking link f of arena a from cur, each once
RECURSIVE WalkIn(_, _, _, _)
WalkIn(a, cur, f, acc) ==
  IF cur = NULL \/ cur \in acc \/ ~Has(a, cur) THEN acc
  ELSE WalkIn(a, a.mem[cur][f], f, acc \cup {cur})

UnsortedFits(a, nb) == {x \in WalkIn(a, a.unsorted, "fd", {}) : a.mem[x].size >= nb}

LargebinFitsIn(a, nb) ==
  UNION {{x \in WalkIn(a, a.largebins[i], "fd", {})
                  \cup WalkIn(a, a.largebins[i], "fd_nextsize", {}) : a.mem[x].size >= nb} :
           i \in 1..NLARGEBINS}

\* the tier that serves nb in arena a, the tcache and the fastbins having
\* nothing for it
SortedTier(a, nb) ==
  IF smallbinIndex(nb) >= 0 /\ a.smallbins[smallbinIndex(nb) + 1] # NULL
    THEN <<"smallbin", smallbinIndex(nb)>>
  ELSE IF UnsortedFits(a, nb) # {} THEN <<"unsorted">>
  ELSE IF LargebinFitsIn(a, nb) # {} THEN <<"largebin">>
  ELSE <<"top">>

\* the arena after the optional consolidation of allocate
Consolidated ==
  IF top \in Chunks /\ mem[top].size < FASTBIN_CONSOLIDATION_THRESHOLD
  THEN mallocConsolidate(Arena) ELSE Arena

\* the tier that the search order names for nb in the current state
FirstTier(nb) ==
  IF Len(tcacheStack(Arena, nb)) > 0 THEN <<"tcache">>
  ELSE IF fastbinIndex(nb) >= 0 /\ fastbins[fastbinIndex(nb) + 1] # NULL THEN <<"fastbin">>
  ELSE SortedTier(Consolidated, nb)

\* C23: an allocate that returns appends one malloc event, and its source
\* is the first tier of tcache, fastbin, smallbin, unsorted, largebin, top
\* that can serve the request, the last four read after the optional
\* consolidation
SearchOrder ==
  [][(lastOp'.op = "malloc" /\ left' = left - 1 /\ lastOp'.status = "ok") =>
       /\ Cardinality({k \in 1..Len(Appended) : Appended[k].type = "malloc"}) = 1
       /\ events'[Len(events')].type = "malloc"
       /\ events'[Len(events')].source = FirstTier(request2size(lastOp'.arg))]_vars


\* the step is release(ptr) of a chunk that is in use
FreeOfInuse(ptr) ==
  /\ lastOp'.op = "free" /\ lastOp'.arg = ptr /\ left' = left - 1
  /\ validPtr(Arena, ptr)

\* the tcache takes a chunk of size nb in the current state
TcacheTakes(nb) == nb <= 80 /\ Len(tcacheStack(Arena, nb)) < 7

\* where the routing rule sends a chunk of size nb
RouteOf(nb) ==
  IF TcacheTakes(nb) THEN {"tcache"}
  ELSE IF fastbinIndex(nb) >= 0 THEN {"fastbin"}
  ELSE {"top", "unsorted"}

Coalesces(q) == {k \in 1..Len(q) : q[k].type = "coalesce"}

\* C24: release of a chunk in use, of size nb, puts it in the tcache iff
\* nb <= 80 and the slot holds fewer than 7 entries, else in the fastbin
\* iff fastbinIndex(nb) >= 0, else coalesces it and puts it in the top or
\* the unsorted bin, and the free event names that place
ReleaseRouting ==
  [][\A ptr \in ptrs :
       FreeOfInuse(ptr) =>
         /\ lastOp'.status = "ok"
         /\ events'[Len(events')].type = "free"
         /\ events'[Len(events')].ptr = ptr
         /\ events'[Len(events')].size = mem[mem2chunk(ptr)].size
         /\ events'[Len(events')].into \in RouteOf(mem[mem2chunk(ptr)].size)
         /\ events'[Len(events')].into = "tcache" =>
              tcache'[mem[mem2chunk(ptr)].size]
                = Append(tcacheStack(Arena, mem[mem2chunk(ptr)].size), mem2chunk(ptr))
         /\ events'[Len(events')].into = "fastbin" =>
              /\ fastbins'[fastbinIndex(mem[mem2chunk(ptr)].size) + 1] = mem2chunk(ptr)
              /\ tcache' = tcache
         /\ (Coalesces(Appended) # {})
              <=> events'[Len(events')].into \in {"top", "unsorted"}]_vars


\* the step is a release that coalesced: the coalesce event it appended
CoalesceOf(ptr) == Appended[CHOOSE k \in Coalesces(Appended) : TRUE]

ReleaseCoalesced(ptr) ==
  /\ lastOp'.op = "free" /\ lastOp'.arg = ptr /\ left' = left - 1
  /\ Cardinality(Coalesces(Appended)) = 1

\* the merged chunk at m of size sz absorbed the top
AbsorbedTop(m, sz, ptr) ==
  /\ lastOp'.status = "ok"
  /\ top' = m /\ m \in Chunks'
  /\ top = m \/ top \notin Chunks'
  /\ top \in Chunks /\ mem'[m].size = sz + mem[top].size
  /\ m \notin (Binned \cup TcacheMembers)'
  /\ events'[Len(events')].type = "free" /\ events'[Len(events')].ptr = ptr
  /\ events'[Len(events')].into = "top"

\* the merged chunk at m went to the end of the unsorted bin
AppendedToUnsorted(m, ptr) ==
  /\ lastOp'.status = "ok"
  /\ top' = top
  /\ UnsortedList' # <<>> /\ UnsortedList'[Len(UnsortedList')] = m
  /\ events'[Len(events')].type = "free" /\ events'[Len(events')].ptr = ptr
  /\ events'[Len(events')].into = "unsorted"

\* C25: when the chunk that coalescing produced in release ends at the
\* address of the top, the old top leaves the chunk table, the merged chunk
\* becomes the top with the sum of the two sizes, it is in no bin and the
\* free event has into 'top'; otherwise the merged chunk is appended to the
\* unsorted bin and the free event has into 'unsorted'
TopAbsorption ==
  [][\A ptr \in ptrs :
       ReleaseCoalesced(ptr) =>
         IF CoalesceOf(ptr).result + CoalesceOf(ptr).size = top
         THEN AbsorbedTop(CoalesceOf(ptr).result, CoalesceOf(ptr).size, ptr)
         ELSE AppendedToUnsorted(CoalesceOf(ptr).result, ptr)]_vars


\* the positions in the log of the events of one type
EventsOfType(t) == {k \in 1..Len(events) : events[k].type = t}

\* the k-th position of a set of positions, counted from the lowest
RECURSIVE NthOf(_, _)
NthOf(S, k) ==
  IF k = 1 THEN FirstBin(S) ELSE NthOf(S \ {FirstBin(S)}, k - 1)

\* six calls were made on the fresh arena: allocate(400) three times, giving
\* A, B and C, then release(A), release(C), release(B)
ThreeFreedAroundB ==
  /\ left = MaxOps - 6
  /\ Cardinality(EventsOfType("malloc")) = 3 /\ Cardinality(EventsOfType("free")) = 3
  /\ events[1].type = "malloc" /\ events[2].type = "malloc" /\ events[3].type = "malloc"
  /\ \A k \in 1..3 : events[k].bytes = 400
  /\ events[NthOf(EventsOfType("free"), 1)].ptr = events[1].result
  /\ events[NthOf(EventsOfType("free"), 2)].ptr = events[3].result
  /\ events[NthOf(EventsOfType("free"), 3)].ptr = events[2].result

\* the coalesce events of the release of B in that scenario
CoalescesOfB == {k \in EventsOfType("coalesce") : k > NthOf(EventsOfType("free"), 2)}

\* C26: in the scenario the release of B logs one coalesce event, whose
\* chunk has size 3 * request2size(400) = 1248 and starts at the address of
\* A
CoalesceWithBothNeighbours ==
  ThreeFreedAroundB =>
    /\ Cardinality(CoalescesOfB) = 1
    /\ \A k \in CoalescesOfB : /\ events[k].size = 3 * request2size(400)
                               /\ events[k].size = 1248
                               /\ events[k].result = mem2chunk(events[1].result)

\* C26, amended: in the scenario C abuts the top and is merged into it when
\* it is released, so the release of B logs one coalesce event, whose
\* chunk has size 2 * request2size(400) = 832 and starts at the address of
\* A; that chunk abuts the top and becomes the top
CoalesceWithAOnly ==
  ThreeFreedAroundB =>
    /\ Cardinality(CoalescesOfB) = 1
    /\ \A k \in CoalescesOfB : /\ events[k].size = 2 * request2size(400)
                               /\ events[k].size = 832
                               /\ events[k].result = mem2chunk(events[1].result)
    /\ events[NthOf(EventsOfType("free"), 2)].into = "top"
    /\ events[NthOf(EventsOfType("free"), 3)].into = "top"
    /\ top = mem2chunk(events[1].result)
    /\ Chunks = {top} /\ mem[top].size = InitialHeapBytes

ScenarioCoalesceDone == ThreeFreedAroundB /\ lastOp.op = "free" /\ lastOp.status = "ok"


\* three calls were made on the fresh arena: allocate(2000) -> p1,
\* release(p1), allocate(500)
LargeFreedThenSmaller ==
  /\ left = SplitOps - 3 /\ lastOp.op = "malloc" /\ lastOp.arg = 500
  /\ Cardinality(EventsOfType("malloc")) = 2 /\ Cardinality(EventsOfType("free")) = 1
  /\ events[1].type = "malloc" /\ events[1].bytes = 2000
  /\ events[NthOf(EventsOfType("free"), 1)].ptr = events[1].result
  /\ events[Len(events)].type = "malloc" /\ events[Len(events)].bytes = 500

\* C27: in the scenario release(p1) puts the chunk in the unsorted bin, and
\* allocate(500) is served from the unsorted bin and logs a split event,
\* whose remainder is inserted in a smallbin or a largebin
SplitOfUnsortedChunk ==
  LargeFreedThenSmaller =>
    /\ events[NthOf(EventsOfType("free"), 1)].into = "unsorted"
    /\ events[Len(events)].source = <<"unsorted">>
    /\ Cardinality(EventsOfType("split")) = 1
    /\ \E k \in EventsOfType("bin-insert") :
         /\ k > NthOf(EventsOfType("free"), 1)
         /\ events[k].bin[1] \in {"smallbin", "largebin"}

\* C27, amended: in the scenario the released chunk abuts the top, so
\* release(p1) merges it into the top, the unsorted bin stays empty, and
\* allocate(500) is served from the top at the address of p1, with no split
\* event and no insertion into a bin
ServedFromTopAgain ==
  LargeFreedThenSmaller =>
    /\ events[NthOf(EventsOfType("free"), 1)].into = "top"
    /\ events[Len(events)].source = <<"top">>
    /\ lastOp.status = "ok" /\ lastOp.ret = events[1].result
    /\ EventsOfType("split") = {} /\ EventsOfType("bin-insert") = {}
    /\ unsorted = NULL /\ UsedSmallbins = {} /\ UsedLargebins = {}
    /\ mem[mem2chunk(lastOp.ret)].size = request2size(500)
    /\ top = mem2chunk(lastOp.ret) + request2size(500)
    /\ mem[top].size = InitialHeapBytes - request2size(500)

ScenarioSplitDone == LargeFreedThenSmaller /\ lastOp.status = "ok"


\* the step is an allocate that returned a chunk taken from the unsorted
\* bin or from a largebin
ServedFromSortedTier ==
  /\ lastOp'.op = "malloc" /\ left' = left - 1 /\ lastOp'.status = "ok"
  /\ events'[Len(events')].type = "malloc"
  /\ events'[Len(events')].source \in {<<"unsorted">>, <<"largebin">>}

\* the events this step appended that unlink a chunk from a bin
Unlinks == {k \in (Len(events) + 1)..Len(events') : events'[k].type = "bin-unlink"}

\* the unlinking with which the allocate of this step took its chunk: the
\* last one, with the address and the size s the chunk had in the bin
Taken == events'[CHOOSE k \in Unlinks : \A j \in Unlinks : j <= k]

SplitsAppended ==
  {k \in (Len(events) + 1)..Len(events') : events'[k].type = "split"}

\* the remainder at r, of size rem, is a free chunk in the smallbin of its
\* size when rem <= 528, and in the largebin of its size otherwise
RemainderBinned(r, rem) ==
  /\ r \in DOMAIN mem' /\ mem'[r].size = rem /\ ~mem'[r].inuse
  /\ IF rem <= request2size(512)
     THEN \E i \in 0..(NBINS_SMALL - 1) :
            i = smallbinIndex(rem) /\ r \in Range(SmallbinList(i))'
     ELSE \E i \in 0..(NLARGEBINS - 1) :
            i = largebinIndex(rem) /\ r \in Range(LargebinList(i))'

\* x, of size s in the bin, was cut at x + nb
WasSplit(x, s, nb) ==
  /\ mem'[x].size = nb
  /\ x + nb \notin DOMAIN mem
  /\ RemainderBinned(x + nb, s - nb)
  /\ mem'[x].size + mem'[x + nb].size = s
  /\ Cardinality(SplitsAppended) = 1

\* x was returned whole
WasTakenWhole(x, s) ==
  /\ mem'[x].size = s
  /\ DOMAIN mem' \subseteq DOMAIN mem
  /\ SplitsAppended = {}

SplitPolicyAt(x, s, nb) ==
  /\ s >= nb
  /\ x \in DOMAIN mem' /\ mem'[x].inuse
  /\ IF s - nb >= 32 THEN WasSplit(x, s, nb) ELSE WasTakenWhole(x, s)

\* C28: when allocate takes a chunk of size s >= nb from the unsorted bin or
\* a largebin and s - nb >= 32, the returned chunk has size nb at the
\* address of the taken one and a new free chunk of size s - nb at that
\* address + nb is in the smallbin of its size (s - nb <= 528) or in the
\* largebin of its size; when s - nb < 32 the chunk is returned whole, with
\* size s, and no chunk is created
SplitPolicy ==
  [][ServedFromSortedTier =>
       /\ Unlinks # {}
       /\ Taken.bin[1] \in {"unsorted", "largebin"}
       /\ Taken.addr = mem2chunk(lastOp'.ret)
       /\ SplitPolicyAt(Taken.addr, Taken.size, request2size(lastOp'.arg))]_vars


\* an allocate has split a chunk, and the last call was an allocate that
\* took a chunk whole from a largebin
SplitAndWholeTaken ==
  /\ lastOp.op = "malloc" /\ lastOp.status = "ok" /\ Len(events) > 2
  /\ EventBack(0).type = "malloc" /\ EventBack(0).source = <<"largebin">>
  /\ EventBack(1).type = "bin-unlink" /\ EventBack(1).bin[1] = "largebin"
  /\ EventBack(1).addr = mem2chunk(lastOp.ret)
  /\ EventBack(1).size - EventBack(0).nb < MIN_CHUNK_SIZE + MALLOC_ALIGNMENT
  /\ \E k \in EventsOfType("split") :
       events[k].sizes[2] >= MIN_CHUNK_SIZE + MALLOC_ALIGNMENT


\* the sysmalloc events this step appended
SysmallocsAppended ==
  {k \in (Len(events) + 1)..Len(events') : events'[k].type = "sysmalloc"}

\* the arena as allocate finds it when it comes to the top: after the
\* consolidation that a top below the threshold sets off
AtTopTier ==
  IF top \in DOMAIN mem /\ mem[top].size < FASTBIN_CONSOLIDATION_THRESHOLD
  THEN mallocConsolidate(Arena) ELSE Arena

\* the top of arena t is too small for a chunk of nb bytes
TopTooSmall(t, nb) == Ok(t) /\ Has(t, t.top) /\ t.mem[t.top].size < nb

\* the step returned the chunk at the top of t and left the rest of that
\* top, grown by grow bytes, as the new top
CutFromTop(t, nb, grow) ==
  /\ lastOp'.status = "ok" /\ lastOp'.ret = chunk2mem(t.top)
  /\ events'[Len(events')].type = "malloc" /\ events'[Len(events')].source = <<"top">>
  /\ top' = t.top + nb /\ top' \in DOMAIN mem'
  /\ mem'[top'].size = t.mem[t.top].size + grow - nb

GrewBy(grow) ==
  /\ Cardinality(SysmallocsAppended) = 1
  /\ \A k \in SysmallocsAppended : events'[k].bytes = grow

GrowthRule(t, nb) ==
  /\ SysmallocsAppended # {} =>
       /\ TopTooSmall(t, nb)
       /\ GrewBy(alignUp(Max(nb, SYSMALLOC_MIN)))
       /\ CutFromTop(t, nb, alignUp(Max(nb, SYSMALLOC_MIN)))
  /\ (TopTooSmall(t, nb) /\ ServedFrom(lastOp'.ret, <<"top">>)) => SysmallocsAppended # {}
  /\ (~TopTooSmall(t, nb) /\ ServedFrom(lastOp'.ret, <<"top">>)) => CutFromTop(t, nb, 0)

\* C29: an allocate logs a sysmalloc event exactly when it comes to the top
\* and the top is then smaller than nb; the growth is alignUp(max(nb, 65536)),
\* the returned chunk is at the address of the top, and the new top is at
\* that address + nb, with the size of the grown top less nb
GrowthOnlyOnNeed ==
  [][\A bytes \in Requests :
       MallocCall(bytes) => GrowthRule(AtTopTier, request2size(bytes))]_vars

\* C29, part: the same rule holds of the allocates that return
GrowthOnlyOnNeedOk ==
  [][\A bytes \in Requests :
       (MallocCall(bytes) /\ lastOp'.status = "ok") => GrowthRule(AtTopTier, request2size(bytes))]_vars


\* the lowest chunk sits at the address the constructor gave the heap
HeapBaseStays == HEAP_BASE \in DOMAIN mem /\ \A c \in DOMAIN mem : c >= HEAP_BASE

\* top.addr + top.size, for a top that is in the chunk table
HighWaterMark == top + mem[top].size

\* the step leaves the mark where it is, or it is an allocate that logged a
\* sysmalloc event and raised the mark
MarkOnlyRaisedBySysmalloc ==
  \/ HighWaterMark' = HighWaterMark
  \/ /\ HighWaterMark' > HighWaterMark
     /\ lastOp'.op = "malloc" /\ SysmallocsAppended # {}

\* C30: in every step the heap base stays at its first address and the
\* high-water mark top.addr + top.size does not decrease; it changes only
\* in an allocate that logs a sysmalloc event, never in release or
\* consolidate
AddressSpaceOnlyGrows ==
  [][/\ HeapBaseStays'
     /\ top' \in DOMAIN mem'
     /\ top \in DOMAIN mem => MarkOnlyRaisedBySysmalloc]_vars


\* the positions of the events of type t that this step appended
AppendedOfType(t) ==
  {k \in (Len(events) + 1)..Len(events') : events'[k].type = t}

\* this step appended exactly one event of a type in T, as its last event
OneClosingEvent(T) ==
  /\ Len(events') > Len(events)
  /\ events'[Len(events')].type \in T
  /\ Cardinality(UNION {AppendedOfType(t) : t \in T}) = 1

\* C31: every allocate call appends exactly one 'malloc' event, as the last
\* event of the call, and every release call appends exactly one event that
\* is a 'free' or an 'error', as the last event of the call
OneEventClosesEachCall ==
  [][/\ (lastOp'.op = "malloc" /\ left' = left - 1) => OneClosingEvent({"malloc"})
     /\ (lastOp'.op = "free" /\ left' = left - 1) => OneClosingEvent({"free", "error"})]_vars

\* C31, part: the same holds of the calls that return
OneEventClosesEachReturn ==
  [][/\ (lastOp'.op = "malloc" /\ left' = left - 1 /\ lastOp'.status = "ok")
          => OneClosingEvent({"malloc"})
     /\ (lastOp'.op = "free" /\ left' = left - 1 /\ lastOp'.status = "ok")
          => OneClosingEvent({"free", "error"})]_vars


\* C32: the event log is append-only: in every step the log of before is
\* an unchanged prefix of the log of after
EventLogAppendOnly ==
  [][/\ Len(events') >= Len(events)
     /\ SubSeq(events', 1, Len(events)) = events]_vars

\* an allocate, a release and a consolidation have each appended to the
\* log, the last of them to a log that held events already
AllCallsLogged ==
  /\ EventsOfType("malloc") # {} /\ EventsOfType("free") # {}
  /\ EventsOfType("consolidate") # {}
  /\ lastOp.op = "consolidate" /\ EventBack(0).type = "consolidate"
  /\ Len(events) > 3


\* snapshot() of arena a returns, leaves a as it is (no field changed, no
\* event appended), and its top and topSize are the address and the size of
\* the top chunk in the chunk table
SnapshotReads(a) ==
  /\ Ok(snapshot(a).a)
  /\ snapshot(a).a = a
  /\ snapshot(a).snap.top = a.top
  /\ Has(a, a.top) /\ snapshot(a).snap.topSize = a.mem[a.top].size

\* a snapshot of arena a reads the same when the arena has become b
SnapshotKept(a, b) ==
  Ok(snapshot(a).a) => Seen(snapshot(a).snap, b) = Seen(snapshot(a).snap, a)

\* C33: snapshot() changes no arena state and appends no event, its top and
\* topSize are the address and size of the top chunk in the chunk table, and
\* a snapshot taken before an allocate, release or consolidate call has the
\* same content after the call
SnapshotIsACopy ==
  [][/\ SnapshotReads(Arena) /\ SnapshotReads(Arena')
     /\ SnapshotKept(Arena, Arena')]_vars

\* C33, part: the same holds wherever arena.top names a chunk
SnapshotIsACopyOfTop ==
  [][/\ top \in DOMAIN mem => SnapshotReads(Arena)
     /\ SnapshotKept(Arena, Arena')]_vars


\* the free chunks that are members of the unsorted bin, a smallbin or a
\* largebin
SortedBinFree ==
  {x \in (UnsortedMembers \cup SmallbinMembers \cup LargebinMembers) \cap Chunks :
     ~mem[x].inuse}

\* the chunk at y may stand next to a binned free chunk: it is the top, it
\* is in use, or it is kept in the tcache or a fastbin
Bounds(y) ==
  /\ y \in Chunks
  /\ \/ y = top
     \/ mem[y].inuse
     \/ y \in TcacheMembers \cup FastbinMembers

\* the chunk at x has such a chunk, or the heap base, on its low side
BoundedBelow(x) ==
  \/ x = HEAP_BASE
  \/ \E p \in Chunks : p + mem[p].size = x /\ p # top /\ Bounds(p)

\* C34: no two physically adjacent chunks are both free members of the
\* unsorted bin, a smallbin or a largebin, and every free chunk in those
\* bins has on each side an in-use chunk, a tcache or fastbin member, the
\* heap base or the top
FullCoalescing ==
  /\ \A x \in SortedBinFree : \A y \in SortedBinFree : x + mem[x].size # y
  /\ \A x \in SortedBinFree : Bounds(x + mem[x].size) /\ BoundedBelow(x)


RECURSIVE SizeSum(_)
SizeSum(S) ==
  IF S = {} THEN 0
  ELSE mem[CHOOSE x \in S : TRUE].size + SizeSum(S \ {CHOOSE x \in S : TRUE})

\* the step is a release that coalesced the chunk it was given
ReleaseCoalescing ==
  /\ lastOp'.op = "free" /\ left' = left - 1
  /\ Cardinality(AppendedOfType("coalesce")) = 1

\* the coalesce event of the step: the address and the size of the result
TheCoalesce == events'[CHOOSE k \in AppendedOfType("coalesce") : TRUE]

\* the chunks that the step merged: the released one, the result, and the
\* ones that left the chunk table, the top aside
Merged ==
  ({mem2chunk(lastOp'.arg), TheCoalesce.result} \cup (DOMAIN mem \ DOMAIN mem')) \ {top}

\* the release ended by joining the result to the top
JoinedTop ==
  /\ events'[Len(events')].type = "free" /\ events'[Len(events')].into = "top"

\* C35: when release coalesces a chunk, the size of the result is the sum
\* of the sizes of the chunk and of the neighbours absorbed, every absorbed
\* chunk has left the chunk table and is in no bin, and the top is not part
\* of the result: it leaves the chunk table only when the release goes on
\* to join the result to the top
CoalesceConservesBytes ==
  [][ReleaseCoalescing =>
       /\ Merged \subseteq DOMAIN mem
       /\ TheCoalesce.size = SizeSum(Merged)
       /\ \A y \in Merged \ {TheCoalesce.result} : y \notin DOMAIN mem' /\ y \notin Binned'
       /\ TheCoalesce.result + TheCoalesce.size <= top
       /\ (top \in DOMAIN mem /\ top \notin DOMAIN mem') => JoinedTop]_vars


\* the step is an allocate of bytes
AllocateStep == lastOp'.op = "malloc" /\ left' = left - 1

\* both quick lookups of an allocate of chunk size nb miss in the current
\* state: the tcache yields no chunk, and neither does the fastbin of nb
QuickLookupsMiss(nb) ==
  /\ tcacheGet(Arena, nb).c = NULL
  /\ Ok(popFastbinForSize(tcacheGet(Arena, nb).a, nb).a)
  /\ popFastbinForSize(tcacheGet(Arena, nb).a, nb).c = NULL

TopBelowThreshold ==
  top \in DOMAIN mem /\ mem[top].size < FASTBIN_CONSOLIDATION_THRESHOLD

\* the links of chunk x
Links(m, x) == <<m[x].fd, m[x].bk, m[x].fd_nextsize, m[x].bk_nextsize>>

\* the unsorted bin, the smallbins and the largebins are after the step
\* what they were before it
SortedBinsKept ==
  /\ unsorted' = unsorted /\ smallbins' = smallbins /\ largebins' = largebins
  /\ \A x \in SortedBinMembers : x \in DOMAIN mem' /\ Links(mem', x) = Links(mem, x)

\* every fastbin but that of index i is after the step what it was before
FastbinsKeptBut(i) ==
  /\ \A j \in 0..(NFASTBINS - 1) : j # i => fastbins'[j + 1] = fastbins[j + 1]
  /\ \A x \in FastbinMembers \cap Chunks :
       mem[x].size # request2size(lastOp'.arg) => (x \in DOMAIN mem' /\ mem'[x].fd = mem[x].fd)

ServedQuickly ==
  /\ lastOp'.status = "ok" /\ events'[Len(events')].type = "malloc"
  /\ events'[Len(events')].source \in {<<"tcache">>, <<"fastbin">>}

\* when the allocate was served from a smallbin, the consolidation came
\* before the chunk was taken from the smallbin
BeforeSmallbinStep ==
  \A k \in AppendedOfType("consolidate") :
    /\ k < Len(events')
    /\ events'[Len(events')].type = "malloc"
    /\ events'[Len(events')].source[1] = "smallbin" => k < Len(events') - 1

\* C36: an allocate drains the fastbins exactly when its tcache lookup and
\* its fastbin lookup miss and the top is then smaller than 8192 bytes; it
\* does so at most once and before the smallbin step; an allocate served
\* from the tcache or a fastbin changes no other bin and logs no coalesce or
\* consolidate event
ConsolidationOnSmallTop ==
  [][\A bytes \in Requests :
       (AllocateStep /\ lastOp'.arg = bytes) =>
         /\ (QuickLookupsMiss(request2size(bytes)) /\ TopBelowThreshold)
              => (\A i \in 1..NFASTBINS : fastbins'[i] = NULL)
         /\ ~(QuickLookupsMiss(request2size(bytes)) /\ TopBelowThreshold)
              => /\ AppendedOfType("consolidate") = {}
                 /\ FastbinsKeptBut(fastbinIndex(request2size(bytes)))
         /\ Cardinality(AppendedOfType("consolidate")) <= 1
         /\ BeforeSmallbinStep
         /\ ServedQuickly =>
              /\ AppendedOfType("consolidate") = {} /\ AppendedOfType("coalesce") = {}
              /\ SortedBinsKept
              /\ FastbinsKeptBut(IF events'[Len(events')].source = <<"fastbin">>
                                 THEN fastbinIndex(request2size(bytes)) ELSE -1)]_vars


\* the largebin insertion of the step: its last 'bin-insert' event into a
\* largebin
LargebinInserts ==
  {k \in (Len(events) + 1)..Len(events') :
     events'[k].type = "bin-insert" /\ events'[k].bin[1] = "largebin"}

Inserted == events'[CHOOSE k \in LargebinInserts : \A j \in LargebinInserts : j <= k]

\* the chunks of the size ring walk q, the chunk x left out, that are
\* larger than size
GreaterOnRing(m, q, x, size) ==
  {k \in 1..Len(q) : q[k] # x /\ q[k] \in DOMAIN m /\ m[q[k]].size > size}

\* on the size ring walked as q from the head of the bin, the chunk x of the
\* given size stands immediately before the first chunk of greater size,
\* and at the end of the walk, before the head, when there is none
StandsBeforeFirstGreater(m, q, x, size) ==
  /\ x \in Range(q)
  /\ IF GreaterOnRing(m, q, x, size) = {}
     THEN q[Len(q)] = x
     ELSE m[x].fd_nextsize =
            q[CHOOSE k \in GreaterOnRing(m, q, x, size) :
                \A j \in GreaterOnRing(m, q, x, size) : k <= j]

\* C37: a chunk inserted into a largebin that held chunks stands on the
\* size ring immediately before the first element of strictly greater size,
\* hence after the chunks of its own size that were inserted before it
LargebinInsertionOrder ==
  [][\A i \in 0..(NLARGEBINS - 1) :
       (/\ LargebinInserts # {} /\ lastOp'.status = "ok"
        /\ Inserted.bin = <<"largebin", i>>
        /\ Len(LargebinSizeList(i)') > 1) =>
         StandsBeforeFirstGreater(mem', LargebinSizeList(i)', Inserted.addr, Inserted.size)]_vars


\* the walk q along fd from the head of a bin is a well-formed circular
\* doubly-linked list: every address on it is a chunk, each member is the bk
\* of its fd and the fd of its bk, and the walk comes back to the head
WellFormedRing(q) ==
  /\ Range(q) \subseteq Chunks
  /\ \A c \in Range(q) :
       /\ mem[c].fd \in Chunks /\ mem[mem[c].fd].bk = c
       /\ mem[c].bk \in Chunks /\ mem[mem[c].bk].fd = c
  /\ mem[q[Len(q)]].fd = q[1]

\* the walk q along fd from the head of a fastbin is a chain of chunks that
\* ends with null
WellFormedChain(q) ==
  /\ Range(q) \subseteq Chunks
  /\ mem[q[Len(q)]].fd = NULL

NoLinks(c) ==
  /\ mem[c].fd = NULL /\ mem[c].bk = NULL
  /\ mem[c].fd_nextsize = NULL /\ mem[c].bk_nextsize = NULL

\* C38: every non-empty unsorted bin, smallbin and largebin is a well-formed
\* circular doubly-linked list of chunks, every fastbin is a null-terminated
\* chain of chunks, and every in-use chunk and the top have fd, bk,
\* fd_nextsize and bk_nextsize all null
BinListIntegrity ==
  /\ unsorted # NULL => WellFormedRing(UnsortedList)
  /\ \A i \in UsedSmallbins : WellFormedRing(SmallbinList(i))
  /\ \A i \in UsedLargebins : WellFormedRing(LargebinList(i))
  /\ \A i \in UsedFastbins : WellFormedChain(FastbinList(i))
  /\ \A c \in Chunks : mem[c].inuse => NoLinks(c)
  /\ top \in Chunks => NoLinks(top)


\* the size of the chunks that slot i of the fastbins and of the smallbins
\* is for
SlotSize(i) == 32 + 16 * i

\* chunk sizes: multiples of the alignment, and the sizes in the chunk table
SizeClasses ==
  {MALLOC_ALIGNMENT * k : k \in 0..MaxClass} \cup {mem[x].size : x \in Chunks}

\* C39: every member of fastbin[i] and every member of smallbin[i] has size
\* exactly 32 + 16 * i, which for a smallbin is at most 528, and fastbinIndex
\* is (size - 32) / 16 for the chunk sizes 32, 48, ..., 96 and -1 for every
\* other chunk size
ExactSizeSlots ==
  /\ \A i \in UsedFastbins :
       \A x \in Range(FastbinList(i)) \cap Chunks : mem[x].size = SlotSize(i)
  /\ \A i \in UsedSmallbins :
       \A x \in Range(SmallbinList(i)) \cap Chunks :
         mem[x].size = SlotSize(i) /\ mem[x].size <= 528
  /\ \A sz \in SizeClasses :
       fastbinIndex(sz) = IF sz \in {32, 48, 64, 80, 96} THEN (sz - 32) \div 16 ELSE -1

\* C39, part: the slots of the fastbins and the index function alone
ExactSizeFastbinIndex ==
  \A sz \in SizeClasses :
    fastbinIndex(sz) = IF sz \in {32, 48, 64, 80, 96} THEN (sz - 32) \div 16 ELSE -1


\* the addresses met in arena a walking link f from cur, each once, in order
RECURSIVE WalkSeqIn(_, _, _, _)
WalkSeqIn(a, cur, f, acc) ==
  IF cur = NULL \/ cur \in Range(acc) \/ ~Has(a, cur) THEN acc
  ELSE WalkSeqIn(a, a.mem[cur][f], f, Append(acc, cur))

\* the unsorted bin of arena a, walked forward from its head
UnsortedListIn(a) == WalkSeqIn(a, a.unsorted, "fd", <<>>)

\* the step is an allocate that was served from the unsorted bin
ServedFromUnsorted ==
  /\ lastOp'.op = "malloc" /\ left' = left - 1 /\ lastOp'.status = "ok"
  /\ events'[Len(events')].type = "malloc"
  /\ events'[Len(events')].source = <<"unsorted">>

\* the positions on the walk q of arena a of the chunks of size >= nb
FitsOnWalk(a, q, nb) == {k \in 1..Len(q) : a.mem[q[k]].size >= nb}

\* x is the first chunk of size >= nb on the walk q of arena a
FirstFitOnWalk(a, q, nb, x) ==
  /\ FitsOnWalk(a, q, nb) # {}
  /\ x = q[CHOOSE k \in FitsOnWalk(a, q, nb) : \A j \in FitsOnWalk(a, q, nb) : k <= j]

\* of the chunks of size >= nb on the walk q, x is the one that was put in
\* the unsorted bin first
EarliestInserted(a, q, nb, x) ==
  \A k \in FitsOnWalk(a, q, nb) :
    q[k] # x => LastInsertIn(a.events, x, <<"unsorted">>)
                  < LastInsertIn(a.events, q[k], <<"unsorted">>)

\* a is the arena in which the allocate of the step came to the unsorted
\* bin, x the chunk it returned
UnsortedFirstFitIn(a, nb, x) ==
  /\ Ok(a)
  /\ FirstFitOnWalk(a, UnsortedListIn(a), nb, x)
  /\ EarliestInserted(a, UnsortedListIn(a), nb, x)
  /\ UnsortedList' = SelectSeq(UnsortedListIn(a), LAMBDA y : y # x)
  /\ unsorted' = IF Len(UnsortedListIn(a)) = 1 THEN NULL
                 ELSE IF a.unsorted = x THEN a.mem[x].fd
                 ELSE a.unsorted

\* C40: the chunk an allocate takes from the unsorted bin is the first chunk
\* of size >= nb on the walk forward from the head, which is the one of them
\* that was inserted first; the other members keep their order, and the head
\* moves to its successor when the head is taken
UnsortedFirstFit ==
  [][ServedFromUnsorted =>
       UnsortedFirstFitIn(AtTopTier, request2size(lastOp'.arg), mem2chunk(lastOp'.ret))]_vars

\* an allocate has passed over the head of the unsorted bin, which was too
\* small, and taken a later member
PassedOverHead ==
  /\ lastOp.op = "malloc" /\ lastOp.status = "ok" /\ Len(events) > 2
  /\ EventBack(0).type = "malloc" /\ EventBack(0).source = <<"unsorted">>
  /\ unsorted # NULL /\ unsorted \in Chunks
  /\ mem[unsorted].size < EventBack(0).nb
  /\ LastInsertIn(events, unsorted, <<"unsorted">>)
       < LastInsertIn(events, mem2chunk(lastOp.ret), <<"unsorted">>)

====
